---- MODULE Spec2Model ----
(***************************************************************************)
(* Verification model of Andoree/graphmel: the neighbour sampler feeding   *)
(* the graph encoders, the GraphSAGE-over-BERT forward pass, the stacked   *)
(* graph encoders of modules.py, the text (SapBERT) loss, and the          *)
(* multi-loss training epoch with mixed precision.                         *)
(*                                                                         *)
(* Tensors are modelled by what the claims read from them: an embedding    *)
(* matrix is the sequence of its rows' identities, a loss is an integer    *)
(* (a fixed-point value), an edge index is a sequence of <<src, dst>>.     *)
(***************************************************************************)
EXTENDS Integers, Sequences, FiniteSets, TLC

VARIABLES
    \* ---- neighbour sampler (one batch) ----
    seeds,          \* the batch's seed node ids, first-seen order, no repeats
    sizes,          \* the fanout sequence, one entry per hop
    n_id,           \* the cumulative node-id sequence
    adjs,           \* hops emitted so far, in the order they were sampled
    known_before,   \* known_before[h]: n_id as it was before hop h was sampled
    s_pc,           \* "sampling" | "sampled"
    rel_ids_list,   \* per hop, the relation id of each sampled edge
    edge_attrs_list,\* per hop, what GATv2Encoder.create_edge_attrs built per edge
    \* ---- GraphSAGEOverBert.forward ----
    num_layers,     \* self.num_layers = len(self.convs)
    f_pc,           \* "idle" | "loop" | "done" | "error"
    f_i,            \* loop index i of enumerate(adjs)
    f_x,            \* x: the node id each row of x is the embedding of
    f_targets,      \* f_targets[i+1]: x_target of layer i (node ids of its rows)
    f_rows,         \* f_rows[i+1]: number of rows of x after layer i
    f_post,         \* f_post[i+1]: the operations applied after conv i
    \* ---- graph encoders of modules.py (GraphSAGE / RGCN / GATv2) ----
    e_kind,         \* "sage" | "rgcn" | "gatv2"
    num_outer_layers,
    num_inner_layers,
    e_adjs,         \* the hop list given to forward
    e_rows_in,      \* number of rows of embs
    e_pc,           \* "loop" | "done"
    e_i,            \* outer loop index
    e_j,            \* inner loop index
    e_x_rows,       \* number of rows of x
    e_blocks,       \* executed blocks: [i, j, post]
    \* ---- text (SapBERT) loss ----
    batch_size,
    concept_ids,    \* labels of the first batch_size rows
    t_rows_1,       \* number of rows of the first term view (seeds + neighbours)
    t_rows_2,       \* number of rows of the second term view
    t_pc,           \* "idle" | "done"
    text_embed,     \* the matrix given to the metric-learning loss
    labels,         \* the labels given with it
    t_modality_distance,   \* self.modality_distance of the model
    use_intermodal_miner,  \* self.use_intermodal_miner
    intermodal,     \* what calculate_intermodal_loss computed, and from what
    \* ---- training epoch (train_gatv2_dgi_sapbert / train_rgcn_sapbert) ----
    script,         \* which epoch function runs: "gatv2" | "rgcn" |
                    \* "graphsage" (graphsage_train_epoch) | "graph_model" (train_epoch)
    amp,            \* mixed precision on/off
    modality_distance,  \* "None" | "sapbert" | "cosine" | "MSE"
    weights,        \* model.*_loss_weight
    num_batches,    \* len(train_loader)
    b_idx,          \* batches taken from the loader so far
    pc,             \* position in the loop body
    raw,            \* what the model returned for the batch (unweighted)
    rep,            \* the step's local variables after weighting, as reported
    loss,           \* the step's total loss
    found_inf,      \* the step's gradients hold inf/nan
    grads,          \* batches whose gradients are accumulated in .grad
    params,         \* number of optimizer updates applied to the parameters
    params_before,  \* params as it was when the current step began
    scaler_updates, \* number of scaler.update() calls
    ops,            \* operations executed in the current step, in order
    num_steps,
    losses_dict,
    result,         \* what the epoch function returned
    out_rows,       \* model_output.size(0) of the step (graphsage / graph_model)
    history,        \* every call of the epoch so far: [batch, op, grads]
    \* ---- main of train_gatv2_dgi_sapbert.py / train_rgcn_sapbert.py ----
    m_script,       \* "gatv2" | "rgcn"
    args,           \* the parsed command line
    edges_tuples,   \* the loaded edges: <<src, dst, rel id, rela id>>
    index_corrupt,  \* the conversion left out one relation id
    m_pc,           \* position in main
    edge_index,     \* sequence of <<src, dst>> columns
    edge_rel_ids,   \* the relation-id list returned with it
    m_done,         \* what main has done so far, in order
    m_error,        \* "none", or the exception that ended the run
    \* ---- train_model of pretrain_graph_model.py ----
    num_epochs,
    train_len,      \* len(train_loader)
    val_len,        \* len(val_loader)
    val_draws,      \* neighbourhoods the sampler can draw for a validation batch
    d_batch_size,   \* model_output.size(0) of a step
    save_every_N_epoch, \* the save interval the run is configured with
    epoch,          \* i of train_model
    d_pc,           \* position in train_model
    d_batch,        \* batches taken from the current loader in the current pass
    total_loss,     \* total_loss of the running epoch function
    epoch_num_steps,    \* num_steps returned by train_epoch
    global_num_steps,
    model_params,   \* number of optimizer updates applied to the model
    epoch_train_loss,
    epoch_val_loss_1,
    epoch_val_loss_2,
    val_loss_history,
    checkpoints,    \* files written by torch.save, in order
    processed,      \* every batch taken from a loader: [epoch, pass, batch, outcome]
    d_error,        \* None, or the exception that left train_model
    training,       \* model.training
    log_file,       \* the epochs update_log_file has written a line for
    \* ---- save_node_id2terms_list / load_node_id2terms_list of io.py ----
    mapping,        \* the dict handed to save, in insertion order: [cui, terms]
    out_file,       \* the characters of the written file
    node_id2_terms, \* the dict built by load, in insertion order: [node_id, terms]
    io_pc,          \* "start" | "saved" | "save_raised" | "loaded" | "load_raised"
    io_error,       \* None, or the exception raised by save or load
    \* ---- the model registry of lexsubgen.py ----
    loaded,         \* EmbSimProbEstimator.loaded: model name -> entry, present names only
    estimators,     \* the estimators constructed so far: [cls, model_name]
    load_count,     \* model name -> number of times its model was loaded
    r_op,           \* the last operation on the registry: <<what, model name>>
    r_error,        \* None, or the exception the last operation raised
    \* ---- model_step of pretrain_graph_model.py / graphsage_step of pretrain_graphsage.py ----
    model_output,   \* the rows the model returned for the batch, one number per row
    link_pc,        \* "start" | "done" | "raised"
    link_scores,    \* None, or the arguments of the two logsigmoid calls
    link_error,     \* None, or the exception the step raised
    \* ---- extract_umls_edges of umls2graph.py ----
    mrrel_df,       \* the rows of MRREL: <<CUI1, CUI2>>, a CUI being its rank in string order
    cui2node_id,    \* CUI -> node id, for the CUIs it knows
    idx,            \* rows iterated so far
    edges,          \* the edge list built so far
    cui_str_set,    \* the keys f"{cui_1}~~{cui_2}" seen so far
    u_pc,           \* "loop" | "done" | "raised"
    \* ---- save_tuples / load_tuples of io.py ----
    tuples_in,      \* the list handed to save_tuples
    tuples_file,    \* the characters of the written file
    tuples_out,     \* the list load_tuples returned
    tp_pc,          \* "start" | "saved" | "loaded" | "load_raised"
    tp_error        \* None, or the exception load_tuples raised

samplerVars == <<seeds, sizes, n_id, adjs, known_before, s_pc, rel_ids_list, edge_attrs_list>>
forwardVars == <<num_layers, f_pc, f_i, f_x, f_targets, f_rows, f_post>>
encoderVars == <<e_kind, num_outer_layers, num_inner_layers, e_adjs, e_rows_in,
                 e_pc, e_i, e_j, e_x_rows, e_blocks>>
textVars    == <<batch_size, concept_ids, t_rows_1, t_rows_2, t_pc, text_embed, labels,
                 t_modality_distance, use_intermodal_miner, intermodal>>
trainVars   == <<script, amp, modality_distance, weights, num_batches, b_idx, pc, raw, rep,
                 loss, found_inf, grads, params, params_before, scaler_updates, ops,
                 num_steps, losses_dict, result, out_rows, history>>

mainVars    == <<m_script, args, edges_tuples, index_corrupt, m_pc, edge_index, edge_rel_ids,
                 m_done, m_error>>

driverVars  == <<num_epochs, train_len, val_len, val_draws, d_batch_size, save_every_N_epoch,
                 epoch, d_pc, d_batch, total_loss, epoch_num_steps, global_num_steps,
                 model_params, epoch_train_loss, epoch_val_loss_1, epoch_val_loss_2,
                 val_loss_history, checkpoints, processed, d_error, training, log_file>>

ioVars      == <<mapping, out_file, node_id2_terms, io_pc, io_error>>

registryVars == <<loaded, estimators, load_count, r_op, r_error>>

linkVars == <<model_output, link_pc, link_scores, link_error>>

umlsVars == <<mrrel_df, cui2node_id, idx, edges, cui_str_set, u_pc>>

tuplesVars == <<tuples_in, tuples_file, tuples_out, tp_pc, tp_error>>

extraVars == <<registryVars, linkVars, umlsVars, tuplesVars>>

baseVars == <<mainVars, driverVars, ioVars>>

coreVars == <<samplerVars, forwardVars, encoderVars, textVars, trainVars>>
restVars == <<mainVars, driverVars, ioVars, extraVars>>

vars == <<coreVars, restVars>>

----------------------------------------------------------------------------
(* Sequence helpers *)

Min(a, b) == IF a <= b THEN a ELSE b

\* Python's s[:n] for n >= 0: the first n elements, or all of s when it is shorter.
Take(s, n) == SubSeq(s, 1, Min(n, Len(s)))

Range(s) == {s[i] : i \in 1..Len(s)}

Reverse(s) == [i \in 1..Len(s) |-> s[Len(s) + 1 - i]]

\* 1-based position of v in s (v occurs in s).
IndexOf(s, v) == CHOOSE i \in 1..Len(s) : s[i] = v /\ \A j \in 1..(i - 1) : s[j] # v

RECURSIVE SortedSeq(_)
SortedSeq(S) ==
    IF S = {} THEN <<>>
    ELSE LET m == CHOOSE x \in S : \A y \in S : x <= y
         IN <<m>> \o SortedSeq(S \ {m})

\* All sequences without repeats over S of length 1..n.
RECURSIVE DistinctSeqs(_, _)
DistinctSeqs(S, n) ==
    IF n = 0 THEN {}
    ELSE {<<v>> : v \in S}
         \cup {w \in {<<v>> \o t : v \in S, t \in DistinctSeqs(S, n - 1)} :
                  \A i \in 2..Len(w) : w[i] # w[1]}

\* All sequences over S of length 1..n.
RECURSIVE SeqsUpTo(_, _)
SeqsUpTo(S, n) ==
    IF n = 0 THEN {}
    ELSE {<<v>> : v \in S} \cup {<<v>> \o t : v \in S, t \in SeqsUpTo(S, n - 1)}

----------------------------------------------------------------------------
(* Bounds of the sampler / forward model *)

MaxSeeds == 2
MaxHops == 2
MaxLayers == 2

\* The graph index: nodes 0..3, the edge list of the end-to-end scenario of the
\* specification plus the pair (0,2),(2,0); node 3 has no edge at all.
Nodes == {0, 1, 2, 3}
GraphEdges == << <<0, 1>>, <<1, 0>>, <<1, 2>>, <<2, 1>>, <<0, 2>>, <<2, 0>> >>

\* -1: the sentinel "all neighbours".
Fanouts == {-1, 1, 2}

----------------------------------------------------------------------------
(* Neighbour sampler.  One batch: the seeds, then one hop per fanout.      *)

\* Ids (positions in GraphEdges) of the graph edges pointing at node t: the
\* edges along which t receives messages from its neighbours.
InEdges(t) == {e \in 1..Len(GraphEdges) : GraphEdges[e][2] = t}

\* The neighbourhoods a node may get with fanout k: all its edges when it has at
\* most k of them (or k is the sentinel), else any k of them.
Picks(t, k) ==
    LET E == InEdges(t)
    IN IF k = -1 \/ Cardinality(E) <= k THEN {E}
       ELSE {S \in SUBSET E : Cardinality(S) = k}

\* One neighbourhood per currently known node, in the order of the node ids.
RECURSIVE HopChoices(_, _)
HopChoices(ids, k) ==
    IF ids = <<>> THEN {<<>>}
    ELSE {<<S>> \o r : S \in Picks(Head(ids), k), r \in HopChoices(Tail(ids), k)}

\* The hop's sampled edge ids: by target position, then by edge id.
RECURSIVE HopEdgeIds(_)
HopEdgeIds(choice) ==
    IF choice = <<>> THEN <<>>
    ELSE SortedSeq(Head(choice)) \o HopEdgeIds(Tail(choice))

\* Newly discovered neighbour ids are appended, deduplicated against every id
\* already known.
RECURSIVE ExtendNodeIds(_, _)
ExtendNodeIds(ids, eids) ==
    IF eids = <<>> THEN ids
    ELSE LET s == GraphEdges[Head(eids)][1]
         IN ExtendNodeIds(IF s \in Range(ids) THEN ids ELSE Append(ids, s), Tail(eids))

\* Global node ids -> local (0-based) indices into the cumulative sequence.
LocalEdgeIndex(ids, eids) ==
    [j \in 1..Len(eids) |-> <<IndexOf(ids, GraphEdges[eids[j]][1]) - 1,
                              IndexOf(ids, GraphEdges[eids[j]][2]) - 1>>]

\* The hop tuple (edge_index, e_id, size); size = (#source nodes, #target nodes).
\* size[0] and size[1] of the code are size[1] and size[2] here.
HopTuple(before, after, eids) ==
    [edge_index |-> LocalEdgeIndex(after, eids),
     e_id       |-> eids,
     size       |-> <<Len(after), Len(before)>>]

\* The Graph Index's relation-id array, parallel to GraphEdges: edge (0,1) is
\* tagged 5.
EdgeRelIds == <<5, 1, 2, 0, 1, 3>>

\* The relation id of each sampled edge of a hop, looked up by its global edge id.
RelIdsOfHop(adj) == [j \in 1..Len(adj.e_id) |-> EdgeRelIds[adj.e_id[j]]]

SizeSrc(adj) == adj.size[1]
SizeDst(adj) == adj.size[2]

\* A faulty stop rule: give up as soon as a hop found no edge.
SamplerDoneEarly ==
    \/ Len(adjs) = Len(sizes)
    \/ (Len(adjs) > 0 /\ adjs[Len(adjs)].e_id = <<>>)

\* The hop loop runs once per entry of sizes, whatever was found.
SamplerDone == Len(adjs) = Len(sizes)

SamplerInit ==
    /\ seeds \in DistinctSeqs(Nodes, MaxSeeds)
    /\ sizes \in SeqsUpTo(Fanouts, MaxHops)
    /\ n_id = seeds
    /\ adjs = <<>>
    /\ known_before = <<>>
    /\ s_pc = "sampling"
    /\ rel_ids_list = <<>>
    /\ edge_attrs_list = <<>>

SampleHop ==
    /\ s_pc = "sampling"
    /\ ~SamplerDone
    /\ \E choice \in HopChoices(n_id, sizes[Len(adjs) + 1]) :
          LET eids == HopEdgeIds(choice)
              after == ExtendNodeIds(n_id, eids)
          IN /\ n_id' = after
             /\ adjs' = Append(adjs, HopTuple(n_id, after, eids))
             /\ known_before' = Append(known_before, n_id)
    /\ UNCHANGED <<seeds, sizes, s_pc, rel_ids_list, edge_attrs_list>>

\* The batch is handed over with the hops outermost first (the order the
\* message-passing layers consume them).
SamplerReturn ==
    /\ s_pc = "sampling"
    /\ SamplerDone
    /\ adjs' = Reverse(adjs)
    /\ known_before' = Reverse(known_before)
    /\ s_pc' = "sampled"
    /\ rel_ids_list' = [h \in 1..Len(adjs) |-> RelIdsOfHop(adjs'[h])]
    /\ UNCHANGED <<seeds, sizes, n_id, edge_attrs_list>>

\* A faulty selection: the relation matrices are taken in sorted order of the
\* relation ids instead of edge by edge.
RelMatricesSorted(edge_type) ==
    LET n == Len(edge_type)
        CountLess(j) == Cardinality({i \in 1..n : edge_type[i] < edge_type[j]
                                                  \/ (edge_type[i] = edge_type[j] /\ i < j)})
    IN [p \in 1..n |-> edge_type[CHOOSE j \in 1..n : CountLess(j) = p - 1]]

\* self.relation_matrices[edge_type]: entry j is the matrix of relation edge_type[j].
RelMatrices(edge_type) == [j \in 1..Len(edge_type) |-> edge_type[j]]

\* The edge features of one hop: local edge j joins the embeddings of its source
\* and target rows and projects them through rel_matrices[j].
HopEdgeAttrs(embs, adj, rel_matrices) ==
    [j \in 1..Min(Len(adj.edge_index), Len(rel_matrices)) |->
        [src    |-> embs[adj.edge_index[j][1] + 1],
         trg    |-> embs[adj.edge_index[j][2] + 1],
         matrix |-> rel_matrices[j]]]

\* GATv2Encoder.create_edge_attrs on the batch (embs has one row per entry of
\* n_id); gatv2_dgi_sapbert_train_step hands rel_ids_list over as edge_type_list.
CreateEdgeAttrs ==
    /\ s_pc = "sampled"
    /\ edge_attrs_list = <<>>
    /\ LET edge_type_list == rel_ids_list
           rel_matrices_list == [h \in 1..Len(edge_type_list) |-> RelMatrices(edge_type_list[h])]
       IN edge_attrs_list' =
              [h \in 1..Min(Len(adjs), Len(rel_matrices_list)) |->
                  HopEdgeAttrs(n_id, adjs[h], rel_matrices_list[h])]
    /\ UNCHANGED <<seeds, sizes, n_id, adjs, known_before, s_pc, rel_ids_list>>

----------------------------------------------------------------------------
(* GraphSAGEOverBert.forward *)

\* A faulty slice: the source side of the hop instead of the target side.
XTargetSrc(x, adj) == Take(x, SizeSrc(adj))

\* x_target = x[:size[1]]
XTarget(x, adj) == Take(x, SizeDst(adj))

\* self.convs[i]((x, x_target), edge_index): a bipartite convolution returns one
\* row per row of x_target.
SageConvBipartite(x, x_target) == x_target

\* Post-processing that forgets to exempt the last layer.
PostOpsAlways(i) == <<"relu", "dropout">>

\* if i != self.num_layers - 1: x = x.relu(); x = F.dropout(x, ...)
PostOps(i) == IF i # num_layers - 1 THEN <<"relu", "dropout">> ELSE <<>>

ForwardInit ==
    /\ num_layers \in 1..MaxLayers
    /\ f_pc = "idle"
    /\ f_i = 0
    /\ f_x = <<>>
    /\ f_targets = <<>>
    /\ f_rows = <<>>
    /\ f_post = <<>>

\* One [CLS] row per input row; the input rows are the rows of n_id.
FwdEncode ==
    /\ s_pc = "sampled"
    /\ f_pc = "idle"
    /\ f_x' = n_id
    /\ f_pc' = "loop"
    /\ UNCHANGED <<num_layers, f_i, f_targets, f_rows, f_post>>

FwdLayer ==
    /\ f_pc = "loop"
    /\ f_i < Len(adjs)
    /\ f_i < num_layers
    /\ LET x_target == XTarget(f_x, adjs[f_i + 1])
           x == SageConvBipartite(f_x, x_target)
       IN /\ f_x' = x
          /\ f_targets' = Append(f_targets, x_target)
          /\ f_rows' = Append(f_rows, Len(x))
    /\ f_post' = Append(f_post, PostOps(f_i))
    /\ f_i' = f_i + 1
    /\ UNCHANGED <<num_layers, f_pc>>

\* More hops than layers: self.convs[i] raises IndexError.
FwdIndexError ==
    /\ f_pc = "loop"
    /\ f_i < Len(adjs)
    /\ f_i >= num_layers
    /\ f_pc' = "error"
    /\ UNCHANGED <<num_layers, f_i, f_x, f_targets, f_rows, f_post>>

FwdReturn ==
    /\ f_pc = "loop"
    /\ f_i = Len(adjs)
    /\ f_pc' = "done"
    /\ UNCHANGED <<num_layers, f_i, f_x, f_targets, f_rows, f_post>>


----------------------------------------------------------------------------
(* Graph encoders of modules.py.  The three forward methods share one loop: *)
(* zip(adjs, self.convs[, per-hop relation data]) outside, the inner convs  *)
(* inside.                                                                  *)

MaxEncLayers == 2
MaxEncHops == 2
MaxCount == 3

EncoderKinds == {"sage", "rgcn", "gatv2"}

\* Node counts c[1] >= c[2] >= ... of a sampled batch, outermost first.
RECURSIVE CountChains(_)
CountChains(n) ==
    IF n = 1 THEN {<<c>> : c \in 1..MaxCount}
    ELSE {w \in {Append(t, c) : t \in CountChains(n - 1), c \in 1..MaxCount} :
             w[n] <= w[n - 1]}

\* The hop list of a chain: hop h has size (c[h], c[h+1]).
HopsOfChain(c) == [h \in 1..(Len(c) - 1) |-> [size |-> <<c[h], c[h + 1]>>]]

\* zip stops at its shortest argument; the per-hop relation data (rel_types,
\* edge_attrs_list) holds one entry per hop.
NumOuterIterations == Min(Len(e_adjs), num_outer_layers)

\* A bipartite convolution, as GraphSAGEOverBert.forward uses: one row per target.
ConvRowsBipartite(rows, adj) == Min(rows, SizeDst(adj))

\* x = conv(x, edge_index[, ...]) on the whole of x: one output row per row of x;
\* size is not used.
ConvRows(rows, adj) == rows

\* if not (i == self.num_outer_layers - 1 and j == self.num_inner_layers - 1):
\*     x = F.dropout(x, ...); x = self.gelu(x)
EncPostOps(i, j) ==
    IF ~(i = num_outer_layers - 1 /\ j = num_inner_layers - 1)
    THEN <<"dropout", "gelu">>
    ELSE <<>>

EncoderInit ==
    /\ e_kind \in EncoderKinds
    /\ num_outer_layers \in 1..MaxEncLayers
    /\ num_inner_layers \in 1..MaxEncLayers
    /\ \E n \in 2..(MaxEncHops + 1) : \E c \in CountChains(n) :
          /\ e_adjs = HopsOfChain(c)
          /\ e_rows_in = c[1]
    /\ e_pc = "loop"
    /\ e_i = 0
    /\ e_j = 0
    /\ e_x_rows = e_rows_in
    /\ e_blocks = <<>>

\* One message-passing block: inner conv j of outer layer i on hop i.
EncBlock ==
    /\ e_pc = "loop"
    /\ e_i < NumOuterIterations
    /\ e_x_rows' = ConvRows(e_x_rows, e_adjs[e_i + 1])
    /\ e_blocks' = Append(e_blocks, [i |-> e_i, j |-> e_j, hop |-> e_i + 1,
                                     post |-> EncPostOps(e_i, e_j)])
    /\ IF e_j + 1 < num_inner_layers
       THEN e_j' = e_j + 1 /\ e_i' = e_i
       ELSE e_j' = 0 /\ e_i' = e_i + 1
    /\ UNCHANGED <<e_kind, num_outer_layers, num_inner_layers, e_adjs, e_rows_in, e_pc>>

EncReturn ==
    /\ e_pc = "loop"
    /\ e_i = NumOuterIterations
    /\ e_pc' = "done"
    /\ UNCHANGED <<e_kind, num_outer_layers, num_inner_layers, e_adjs, e_rows_in,
                   e_i, e_j, e_x_rows, e_blocks>>

----------------------------------------------------------------------------
(* Text (SapBERT) loss: AbstractGraphSapMetricLearningModel.                *)
(* A row of an embedding matrix is <<view, row index>> (0-based index).     *)

MaxBatchSize == 2
MaxNeighbourRows == 2

ConceptIdVals == {0, 1, 2}

\* The rows of a term view with n rows.
ViewRows(view, n) == [r \in 1..n |-> <<view, r - 1>>]

\* A faulty concatenation that forgets the [:batch_size] slices.
TextEmbedUnsliced(emb_1, emb_2, bs) == emb_1 \o emb_2

\* text_embed = torch.cat([emb_1[:batch_size], emb_2[:batch_size]], dim=0)
TextEmbed(emb_1, emb_2, bs) == Take(emb_1, bs) \o Take(emb_2, bs)

TextInit ==
    /\ batch_size \in 1..MaxBatchSize
    /\ concept_ids \in [1..batch_size -> ConceptIdVals]
    /\ t_rows_1 \in batch_size..(batch_size + MaxNeighbourRows)
    /\ t_rows_2 \in batch_size..(batch_size + MaxNeighbourRows)
    /\ t_pc = "idle"
    /\ text_embed = <<>>
    /\ labels = <<>>
    /\ t_modality_distance \in {"None", "sapbert", "cosine", "MSE"}
    /\ use_intermodal_miner \in BOOLEAN
    /\ intermodal = "n/a"

\* eval_step_loss: both views are cut to [:batch_size, 0] before the loss.
EvalStepLoss ==
    /\ t_pc = "idle"
    /\ LET text_embed_1 == Take(ViewRows(1, t_rows_1), batch_size)
           text_embed_2 == Take(ViewRows(2, t_rows_2), batch_size)
       IN text_embed' = TextEmbed(text_embed_1, text_embed_2, batch_size)
    /\ labels' = concept_ids \o concept_ids
    /\ t_pc' = "done"
    /\ UNCHANGED <<batch_size, concept_ids, t_rows_1, t_rows_2,
                   t_modality_distance, use_intermodal_miner, intermodal>>

\* calculate_sapbert_loss on the full views (seed rows followed by the rows of
\* the sampled neighbours), as a training forward pass gives them.
CalculateSapbertLoss ==
    /\ t_pc = "idle"
    /\ text_embed' = TextEmbed(ViewRows(1, t_rows_1), ViewRows(2, t_rows_2), batch_size)
    /\ labels' = concept_ids \o concept_ids
    /\ t_pc' = "done"
    /\ UNCHANGED <<batch_size, concept_ids, t_rows_1, t_rows_2,
                   t_modality_distance, use_intermodal_miner, intermodal>>


----------------------------------------------------------------------------
(* Training epoch: train_gatv2_dgi_sapbert and train_rgcn_sapbert.          *)
(* Losses and weights are integers (fixed-point values).                    *)

MaxBatches == 2

LossVals == {0, 1}
\* Per-view intermodal losses; their mean (l1 + l2) / 2 is exact on these.
ViewLossVals == {0, 2}

\* --text_loss_weight, --graph_loss_weight, --dgi_loss_weight and
\* --intermodal_loss_weight are unconstrained floats.
WeightConfigs ==
    { [sapbert |-> 2, graph |-> 3, dgi |-> 5, intermodal |-> 7],
      [sapbert |-> 1, graph |-> 0, dgi |-> 2, intermodal |-> -1] }

Modalities == {"None", "sapbert", "cosine"}

Components == {"sapbert", "graph", "dgi", "intermodal"}

\* Python's None, and a tensor holding the value v.
None == <<>>
Some(v) == <<v>>
Val(t) == t[1]

\* calculate_intermodal_loss: None unless modality_distance is set; else the
\* mean of the two per-view losses.
CalculateIntermodalLoss(md, l1, l2) ==
    IF md = "sapbert" THEN Some((l1 + l2) \div 2)
    ELSE IF md # "None" THEN Some((l1 + l2) \div 2)
    ELSE None

\* The rows of graph view k carry the tag k + 2 (text views carry 1 and 2).
GraphViewRows(k, n) == ViewRows(k + 2, n)

\* self.intermodal_miner(text_graph_embed, labels): the hard pairs of one matrix.
MinePairs(embed, lbls) == [mined_from |-> embed, labels |-> lbls]

\* A faulty pairing: the pairs mined for view 1 are used for both views.
HardPairsShared(k, pairs_1, pairs_2) == pairs_1

\* intermodal_loss_k is given intermodal_hard_pairs_k.
HardPairs(k, pairs_1, pairs_2) == IF k = 1 THEN pairs_1 ELSE pairs_2

\* The inputs of the two per-view losses, by policy.
IntermodalViews(md, miner, text_embed_1, text_embed_2, graph_embed_1, graph_embed_2, lbls, bs, l1, l2) ==
    LET t1 == Take(text_embed_1, bs)
        t2 == Take(text_embed_2, bs)
        g1 == Take(graph_embed_1, bs)
        g2 == Take(graph_embed_2, bs)
        pairs_1 == MinePairs(t1 \o g1, lbls)
        pairs_2 == MinePairs(t2 \o g2, lbls)
        mined == md = "sapbert" /\ miner
    IN IF md = "None" THEN <<>>
       ELSE << [text |-> t1, graph |-> g1, loss |-> l1,
                pairs |-> IF mined THEN Some(HardPairs(1, pairs_1, pairs_2)) ELSE None],
               [text |-> t2, graph |-> g2, loss |-> l2,
                pairs |-> IF mined THEN Some(HardPairs(2, pairs_1, pairs_2)) ELSE None] >>

\* calculate_intermodal_loss on the full views of a batch; the two per-view
\* losses are whatever the loss function yields on its inputs.
CalculateIntermodalLossCall ==
    /\ t_pc = "done"
    /\ \E l1 \in ViewLossVals, l2 \in ViewLossVals :
          intermodal' =
              [value |-> CalculateIntermodalLoss(t_modality_distance, l1, l2),
               views |-> IntermodalViews(t_modality_distance, use_intermodal_miner,
                                         ViewRows(1, t_rows_1), ViewRows(2, t_rows_2),
                                         GraphViewRows(1, t_rows_1), GraphViewRows(2, t_rows_2),
                                         labels, batch_size, l1, l2)]
    /\ t_pc' = "intermodal"
    /\ UNCHANGED <<batch_size, concept_ids, t_rows_1, t_rows_2, text_embed, labels,
                   t_modality_distance, use_intermodal_miner>>

\* A faulty weighting: the DGI loss is scaled by the graph weight.
WeightedLossesWrongWeight(r, w) ==
    LET sapbert_loss == r.sapbert * w.sapbert
        graph_loss   == r.graph * w.graph
        dgi_loss     == r.dgi * w.graph
    IN IF r.intermodal # None
       THEN [loss |-> sapbert_loss + graph_loss + dgi_loss + Val(r.intermodal) * w.intermodal,
             sapbert |-> sapbert_loss, graph |-> graph_loss, dgi |-> dgi_loss,
             intermodal |-> Val(r.intermodal) * w.intermodal]
       ELSE [loss |-> sapbert_loss + graph_loss + dgi_loss,
             sapbert |-> sapbert_loss, graph |-> graph_loss, dgi |-> dgi_loss,
             intermodal |-> -1]

\* A faulty sentinel: an uncomputed intermodal loss is reported as zero.
WeightedLossesZeroSentinel(r, w) ==
    LET sapbert_loss == r.sapbert * w.sapbert
        graph_loss   == r.graph * w.graph
        dgi_loss     == r.dgi * w.dgi
    IN IF r.intermodal # None
       THEN [loss |-> sapbert_loss + graph_loss + dgi_loss + Val(r.intermodal) * w.intermodal,
             sapbert |-> sapbert_loss, graph |-> graph_loss, dgi |-> dgi_loss,
             intermodal |-> Val(r.intermodal) * w.intermodal]
       ELSE [loss |-> sapbert_loss + graph_loss + dgi_loss,
             sapbert |-> sapbert_loss, graph |-> graph_loss, dgi |-> dgi_loss,
             intermodal |-> 0]

\* The loop body's weighting: every local is overwritten by its weighted value,
\* the total is their sum; an intermodal loss of None becomes -1. and stays out
\* of the total.
WeightedLosses(r, w) ==
    LET sapbert_loss == r.sapbert * w.sapbert
        graph_loss   == r.graph * w.graph
        dgi_loss     == r.dgi * w.dgi
    IN IF r.intermodal # None
       THEN [loss |-> sapbert_loss + graph_loss + dgi_loss + Val(r.intermodal) * w.intermodal,
             sapbert |-> sapbert_loss, graph |-> graph_loss, dgi |-> dgi_loss,
             intermodal |-> Val(r.intermodal) * w.intermodal]
       ELSE [loss |-> sapbert_loss + graph_loss + dgi_loss,
             sapbert |-> sapbert_loss, graph |-> graph_loss, dgi |-> dgi_loss,
             intermodal |-> -1]

\* A faulty scaler that never skips.
ScalerStepAppliesAlways(a, inf) == TRUE

\* scaler.step(optimizer) calls optimizer.step() unless the unscaled gradients
\* hold inf/nan; without amp optimizer.step() is called directly.
ScalerStepApplies(a, inf) == ~(a /\ inf)

\* Before the first step nothing has been computed.
NoOutput == [sapbert |-> 0, graph |-> 0, dgi |-> 0, intermodal |-> None]
NoLosses == [loss |-> 0, sapbert |-> 0, graph |-> 0, dgi |-> 0, intermodal |-> 0]

TrainInit ==
    /\ script \in {"gatv2", "rgcn", "graphsage", "graph_model"}
    /\ amp \in (IF script \in {"gatv2", "rgcn"} THEN BOOLEAN ELSE {FALSE})
    /\ IF script = "gatv2"
       THEN modality_distance \in Modalities /\ weights \in WeightConfigs
       ELSE modality_distance = "None" /\ weights = "n/a"
    /\ num_batches \in 0..MaxBatches
    /\ b_idx = 0
    /\ pc = "next"
    /\ raw = NoOutput
    /\ rep = NoLosses
    /\ loss = 0
    /\ found_inf = FALSE
    /\ grads = {}
    /\ params = 0
    /\ params_before = 0
    /\ scaler_updates = 0
    /\ ops = <<>>
    /\ num_steps = 0
    /\ losses_dict = IF script = "gatv2"
                     THEN [total |-> 0, sapbert |-> 0, graph |-> 0, dgi |-> 0, intermodal |-> 0]
                     ELSE [total |-> 0]
    /\ result = "n/a"
    /\ out_rows = 0
    /\ history = <<>>

trainConfig == <<script, amp, modality_distance, weights, num_batches>>


\* One entry of the epoch's call history.
Call(batch, op, g) == [batch |-> batch, op |-> op, grads |-> g]

\* A faulty zero_grad that leaves the accumulated gradients in place.
ClearedGradsKept(g) == g

\* optimizer.zero_grad(): no batch's gradients are left in .grad
ClearedGrads(g) == {}

\* for batch in loader: optimizer.zero_grad()
ZeroGrad ==
    /\ pc = "next"
    /\ b_idx < num_batches
    /\ b_idx' = b_idx + 1
    /\ grads' = ClearedGrads(grads)
    /\ history' = Append(history, Call(b_idx + 1, "zero_grad", ClearedGrads(grads)))
    /\ params_before' = params
    /\ ops' = <<"zero_grad">>
    /\ pc' = "forward"
    /\ UNCHANGED <<trainConfig, raw, rep, loss, found_inf, params, scaler_updates,
                   num_steps, losses_dict, result, out_rows>>

\* gatv2_dgi_sapbert_train_step, then the weighting of the four losses.
GatForward ==
    /\ pc = "forward"
    /\ script = "gatv2"
    /\ \E s \in LossVals, g \in LossVals, d \in LossVals, l1 \in ViewLossVals, l2 \in ViewLossVals :
          LET r == [sapbert |-> s, graph |-> g, dgi |-> d,
                    intermodal |-> CalculateIntermodalLoss(modality_distance, l1, l2)]
          IN /\ raw' = r
             /\ rep' = WeightedLosses(r, weights)
             /\ loss' = WeightedLosses(r, weights).loss
    /\ ops' = Append(ops, "forward")
    /\ history' = Append(history, Call(b_idx, "forward", grads))
    /\ pc' = "backward"
    /\ UNCHANGED <<trainConfig, params_before, b_idx, found_inf, grads, params, scaler_updates,
                   num_steps, losses_dict, result, out_rows>>

\* rgcn_sapbert_step: the model returns the one loss.
RgcnForward ==
    /\ pc = "forward"
    /\ script = "rgcn"
    /\ loss' \in LossVals
    /\ ops' = Append(ops, "forward")
    /\ history' = Append(history, Call(b_idx, "forward", grads))
    /\ pc' = "backward"
    /\ UNCHANGED <<trainConfig, params_before, b_idx, raw, rep, found_inf, grads, params, scaler_updates,
                   num_steps, losses_dict, result, out_rows>>

\* graphsage_step / model_step: the output rows and the loss of the batch.
SageForward ==
    /\ pc = "forward"
    /\ script \in {"graphsage", "graph_model"}
    /\ loss' \in LossVals
    /\ out_rows' \in {1, 2}
    /\ ops' = Append(ops, "forward")
    /\ history' = Append(history, Call(b_idx, "forward", grads))
    /\ pc' = "backward"
    /\ UNCHANGED <<trainConfig, params_before, b_idx, raw, rep, found_inf, grads, params, scaler_updates,
                   num_steps, losses_dict, result>>

\* scaler.scale(loss).backward() / loss.backward(); the gradients may overflow.
Backward ==
    /\ pc = "backward"
    /\ found_inf' \in BOOLEAN
    /\ grads' = grads \cup {b_idx}
    /\ ops' = Append(ops, IF amp THEN "scale_backward" ELSE "backward")
    /\ history' = Append(history, Call(b_idx, "backward", grads \cup {b_idx}))
    /\ pc' = "opt"
    /\ UNCHANGED <<trainConfig, params_before, b_idx, raw, rep, loss, params, scaler_updates,
                   num_steps, losses_dict, result, out_rows>>

\* scaler.step(optimizer); scaler.update() / optimizer.step()
OptimizerStep ==
    /\ pc = "opt"
    /\ LET applied == ScalerStepApplies(amp, found_inf)
           o1 == IF applied THEN Append(ops, "optimizer_step") ELSE ops
       IN /\ params' = IF applied THEN params + 1 ELSE params
          /\ ops' = IF amp THEN Append(o1, "scaler_update") ELSE o1
    /\ scaler_updates' = IF amp THEN scaler_updates + 1 ELSE scaler_updates
    /\ history' = Append(history, Call(b_idx, "step", grads))
    /\ pc' = "account"
    /\ UNCHANGED <<trainConfig, params_before, b_idx, raw, rep, loss, found_inf, grads,
                   num_steps, losses_dict, result, out_rows>>

\* num_steps += 1; losses_dict[...] += float(...)
Account ==
    /\ pc = "account"
    /\ num_steps' = num_steps + 1
    /\ losses_dict' =
          IF script = "gatv2"
          THEN [total      |-> losses_dict.total + loss,
                sapbert    |-> losses_dict.sapbert + rep.sapbert,
                graph      |-> losses_dict.graph + rep.graph,
                dgi        |-> losses_dict.dgi + rep.dgi,
                intermodal |-> losses_dict.intermodal + rep.intermodal]
          ELSE IF script = "rgcn"
          THEN [total |-> losses_dict.total + loss]
          ELSE [total |-> losses_dict.total + loss * out_rows]
    /\ ops' = Append(ops, "account")
    /\ pc' = "next"
    /\ UNCHANGED <<trainConfig, params_before, b_idx, raw, rep, loss, found_inf, grads, params,
                   scaler_updates, result, out_rows, history>>

\* The loader is exhausted: return (total / (num_steps + 1e-9), num_steps).  The
\* quotient is kept as its numerator and num_steps.
\* graphsage_train_epoch and train_epoch divide by len(train_loader) instead:
\* ZeroDivisionError on an empty loader.
EpochReturn ==
    /\ pc = "next"
    /\ b_idx = num_batches
    /\ IF script \in {"graphsage", "graph_model"} /\ num_batches = 0
       THEN result' = "ZeroDivisionError" /\ pc' = "raised"
       ELSE /\ result' = [total_sum |-> losses_dict.total, num_steps |-> num_steps]
            /\ pc' = "returned"
    /\ UNCHANGED <<trainConfig, params_before, b_idx, raw, rep, loss, found_inf, grads, params,
                   scaler_updates, ops, num_steps, losses_dict, out_rows, history>>

----------------------------------------------------------------------------
(* main of the two relational training scripts, from the parsed arguments   *)
(* to the first training step.                                              *)

\* Edge files: <<src, dst, rel id, rela id>>.  The second and third hold
\* self-loops.
EdgeFiles ==
    { << <<0, 1, 5, 6>>, <<1, 0, 5, 7>> >>,
      << <<0, 1, 5, 6>>, <<1, 1, 2, 3>> >>,
      << <<0, 0, 2, 3>>, <<0, 1, 5, 6>>, <<1, 0, 5, 7>> >> }

\* --use_rel_or_rela: "None" when the option is not given; "group" stands for
\* any other string handed to main.
Granularities == {"rel", "rela", "None", "group"}

\* The options of train_gatv2_dgi_sapbert.py that main reads before training.
GatArgs ==
    [use_rel_or_rela : Granularities, remove_selfloops : BOOLEAN,
     global_fusion : BOOLEAN, fusion_text_weight : {None, Some(1)},
     modality_distance : {"None", "sapbert"}, intermodal_loss_weight : {None, Some(1)}]

\* train_rgcn_sapbert.py has no fusion and no intermodal options.
RgcnArgs ==
    [use_rel_or_rela : Granularities, remove_selfloops : BOOLEAN,
     global_fusion : {FALSE}, fusion_text_weight : {None},
     modality_distance : {"None"}, intermodal_loss_weight : {None}]

IsSelfLoop(t) == t[1] = t[2]

\* convert_edges_tuples_to_oriented_edge_index_with_relations: the columns of the
\* edge index and the parallel relation ids of the chosen granularity; edges
\* (v, v) are left out when remove_selfloops is set.
ConvertEdges(tuples, use_rel_or_rela, remove_selfloops) ==
    LET Keep(t) == ~(remove_selfloops /\ IsSelfLoop(t))
        kept == SelectSeq(tuples, Keep)
    IN [edge_index   |-> [i \in 1..Len(kept) |-> <<kept[i][1], kept[i][2]>>],
        edge_rel_ids |-> [i \in 1..Len(kept) |->
                             IF use_rel_or_rela = "rel" THEN kept[i][3] ELSE kept[i][4]]]

\* What main passes as remove_selfloops: train_rgcn_sapbert.py passes
\* args.remove_selfloops, train_gatv2_dgi_sapbert.py passes the literal True.
RemoveSelfloopsArg(scr, a) == IF scr = "gatv2" THEN TRUE ELSE a.remove_selfloops

\* An assertion that lets everything pass.
IndexAssertionOff(ei, rel) == TRUE

\* assert edge_index.size()[1] == len(edge_rel_ids)
IndexAssertion(ei, rel) == Len(ei) = Len(rel)

MainInit ==
    /\ m_script \in {"gatv2", "rgcn"}
    /\ args \in (IF m_script = "gatv2" THEN GatArgs ELSE RgcnArgs)
    /\ edges_tuples \in EdgeFiles
    /\ index_corrupt \in BOOLEAN
    /\ m_pc = "start"
    /\ edge_index = <<>>
    /\ edge_rel_ids = <<>>
    /\ m_done = <<>>
    /\ m_error = "none"

mainConfig == <<m_script, args, edges_tuples, index_corrupt>>

\* if args.global_fusion: assert args.fusion_text_weight is not None
\* (train_gatv2_dgi_sapbert.py only)
MainCheckFusion ==
    /\ m_pc = "start"
    /\ IF m_script = "gatv2" /\ args.global_fusion /\ args.fusion_text_weight = None
       THEN m_pc' = "failed" /\ m_error' = "AssertionError"
       ELSE m_pc' = "prepare" /\ m_error' = m_error
    /\ UNCHANGED <<mainConfig, edge_index, edge_rel_ids, m_done>>

\* Output directory, model description, seeds, data and text encoder.
MainPrepare ==
    /\ m_pc = "prepare"
    /\ m_done' = m_done \o <<"makedirs", "save_dict", "load_data_and_bert_model", "load_dict">>
    /\ m_pc' = "relations"
    /\ UNCHANGED <<mainConfig, edge_index, edge_rel_ids, m_error>>

\* if "rel" ... elif "rela" ... else: raise ValueError(...)
MainNumRelations ==
    /\ m_pc = "relations"
    /\ IF args.use_rel_or_rela \in {"rel", "rela"}
       THEN m_pc' = "index" /\ m_error' = m_error
       ELSE m_pc' = "failed" /\ m_error' = "ValueError"
    /\ UNCHANGED <<mainConfig, edge_index, edge_rel_ids, m_done>>

\* edge_index, edge_rel_ids = convert_edges_tuples_to_oriented_edge_index_with_relations(...)
\* The conversion returns what it should, or (index_corrupt) a relation-id list
\* that is one entry short.
MainBuildIndex ==
    /\ m_pc = "index"
    /\ LET r == ConvertEdges(edges_tuples, args.use_rel_or_rela,
                             RemoveSelfloopsArg(m_script, args))
       IN /\ edge_index' = r.edge_index
          /\ edge_rel_ids' = IF index_corrupt /\ r.edge_rel_ids # <<>>
                             THEN Tail(r.edge_rel_ids) ELSE r.edge_rel_ids
    /\ m_done' = Append(m_done, "edge_index")
    /\ m_pc' = "assert"
    /\ UNCHANGED <<mainConfig, m_error>>

MainAssertIndex ==
    /\ m_pc = "assert"
    /\ IF IndexAssertion(edge_index, edge_rel_ids)
       THEN m_pc' = "samplers" /\ m_error' = m_error
       ELSE m_pc' = "failed" /\ m_error' = "AssertionError"
    /\ UNCHANGED <<mainConfig, edge_index, edge_rel_ids, m_done>>

\* Positive pairs, the training sampler, the scaler and the model object.  The
\* model is given the options as they are; main checks none of them here.
MainSamplersAndModel ==
    /\ m_pc = "samplers"
    /\ m_done' = m_done \o <<"load_positive_pairs", "sampler", "model">>
    /\ m_pc' = "train"
    /\ UNCHANGED <<mainConfig, edge_index, edge_rel_ids, m_error>>

\* train_graph_sapbert_model runs the epoch function; its first step: zero_grad,
\* the forward pass, then (train_gatv2_dgi_sapbert) the weighting.  A computed
\* intermodal loss times a weight of None raises TypeError.
MainFirstStep ==
    /\ m_pc = "train"
    /\ IF m_script = "gatv2" /\ args.modality_distance # "None"
          /\ args.intermodal_loss_weight = None
       THEN /\ m_done' = m_done \o <<"zero_grad", "forward">>
            /\ m_pc' = "failed"
            /\ m_error' = "TypeError"
       ELSE /\ m_done' = m_done \o <<"zero_grad", "forward", "backward", "optimizer_step">>
            /\ m_pc' = "training"
            /\ m_error' = m_error
    /\ UNCHANGED <<mainConfig, edge_index, edge_rel_ids>>

----------------------------------------------------------------------------
(* train_model of pretrain_graph_model.py, with train_epoch and eval_epoch  *)

MaxEpochs == 2
MaxLoaderLen == 2
MaxDraws == 2
MaxInterval == 2

\* total_loss / len(loader): the quotient, kept exact as numerator and denominator.
Quotient(total, n) == [num |-> total, den |-> n]

\* model_step: the loss of a batch.  In eval mode and under no_grad it is a
\* function of the model and of the batch the loader yields (seeds and the
\* neighbourhood drawn for them).
ModelStepLoss(batch, draw) == batch + draw

\* One batch taken from a loader.
Taken(e, pass, batch, outcome) == [epoch |-> e, pass |-> pass, batch |-> batch, outcome |-> outcome]

\* A loop that swallows the exception of a step and goes on with the next batch.
OnStepExceptionContinue(pass) == pass

\* train_epoch, eval_epoch and train_model hold no try/except: an exception of
\* a step leaves all three.
OnStepException(pass) == "raised"

\* A driver that saves on every save_every_N_epoch-th epoch only.
CheckpointDueEveryN(e, N) == (e + 1) % N = 0

\* train_model saves unconditionally at the end of the loop body.
CheckpointDue(e, N) == TRUE

\* An epoch function that leaves the mode as it finds it.
ModeKept(mode) == mode

\* model.train() on entry of train_epoch
TrainMode(mode) == TRUE

\* model.eval() on entry of eval_epoch
EvalMode(mode) == FALSE

\* A validation step that also updates the parameters.
EvalParamsStepped(p) == p + 1

\* The body of eval_epoch's loop runs model_step under torch.no_grad() and adds
\* to total_loss: no backward, no optimizer step.
EvalParams(p) == p

\* An assertion that lets the epoch go on to its checkpoint.
OnValLossMismatchSave == "save"

\* assert epoch_val_loss_1 == epoch_val_loss_2 fails: AssertionError leaves train_model.
OnValLossMismatch == "raised"

\* f"checkpoint_e_{i}_steps_{num_steps}" and the saved model.state_dict()
Checkpoint(e, steps, state) == [e |-> e, steps |-> steps, state_dict |-> state]

driverConfig == <<num_epochs, train_len, val_len, val_draws, d_batch_size, save_every_N_epoch>>

DriverInit ==
    /\ num_epochs \in 1..MaxEpochs
    /\ train_len \in 0..MaxLoaderLen
    /\ val_len \in 0..MaxLoaderLen
    /\ val_draws \in 1..MaxDraws
    /\ d_batch_size \in {1, MaxBatchSize}
    /\ save_every_N_epoch \in {1, MaxInterval}
    /\ epoch = 0
    /\ d_pc = "epoch"
    /\ d_batch = 0
    /\ total_loss = 0
    /\ epoch_num_steps = 0
    /\ global_num_steps = 0
    /\ model_params = 0
    /\ epoch_train_loss = None
    /\ epoch_val_loss_1 = None
    /\ epoch_val_loss_2 = None
    /\ val_loss_history = <<>>
    /\ checkpoints = <<>>
    /\ processed = <<>>
    /\ d_error = None
    /\ training = TRUE
    /\ log_file = <<>>

\* for i in range(num_epochs): train_epoch begins (model.train(), total_loss = 0, num_steps = 0)
DriverEpochStart ==
    /\ d_pc = "epoch"
    /\ epoch < num_epochs
    /\ d_pc' = "train"
    /\ d_batch' = 0
    /\ total_loss' = 0
    /\ epoch_num_steps' = 0
    /\ training' = TrainMode(training)
    /\ UNCHANGED <<driverConfig, epoch, global_num_steps, model_params, epoch_train_loss,
                   epoch_val_loss_1, epoch_val_loss_2, val_loss_history, checkpoints,
                   processed, d_error,
                   log_file>>

\* One iteration of train_epoch: zero_grad, model_step, backward, optimizer.step, accounting.
\* The training loader shuffles and samples, so the draw is free.
DriverTrainStep ==
    /\ d_pc = "train"
    /\ d_batch < train_len
    /\ \E draw \in {1, MaxDraws} :
          total_loss' = total_loss + ModelStepLoss(d_batch + 1, draw) * d_batch_size
    /\ d_batch' = d_batch + 1
    /\ model_params' = model_params + 1
    /\ epoch_num_steps' = epoch_num_steps + 1
    /\ processed' = Append(processed, Taken(epoch, "train", d_batch + 1, "ok"))
    /\ UNCHANGED <<driverConfig, epoch, d_pc, global_num_steps, epoch_train_loss,
                   epoch_val_loss_1, epoch_val_loss_2, val_loss_history, checkpoints, d_error,
                   training, log_file>>

\* A step of train_epoch or eval_epoch raises (out of memory, an index error
\* of the model, ...).
DriverStepRaises ==
    /\ d_pc \in {"train", "val_1", "val_2"}
    /\ d_batch < (IF d_pc = "train" THEN train_len ELSE val_len)
    /\ d_batch' = d_batch + 1
    /\ processed' = Append(processed, Taken(epoch, d_pc, d_batch + 1, "raised"))
    /\ d_pc' = OnStepException(d_pc)
    /\ d_error' = Some("Exception")
    /\ UNCHANGED <<driverConfig, epoch, total_loss, epoch_num_steps, global_num_steps,
                   model_params, epoch_train_loss, epoch_val_loss_1, epoch_val_loss_2,
                   val_loss_history, checkpoints,
                   training, log_file>>

\* return total_loss / len(train_loader), num_steps; global_num_steps += num_steps;
\* the first eval_epoch begins.
DriverTrainReturn ==
    /\ d_pc = "train"
    /\ d_batch = train_len
    /\ IF train_len = 0
       THEN /\ d_pc' = "raised"
            /\ d_error' = Some("ZeroDivisionError")
            /\ UNCHANGED <<epoch_train_loss, global_num_steps, d_batch, total_loss, training>>
       ELSE /\ epoch_train_loss' = Some(Quotient(total_loss, train_len))
            /\ global_num_steps' = global_num_steps + epoch_num_steps
            /\ d_pc' = "val_1"
            /\ training' = EvalMode(training)
            /\ d_batch' = 0
            /\ total_loss' = 0
            /\ d_error' = d_error
    /\ UNCHANGED <<driverConfig, epoch, epoch_num_steps, model_params, epoch_val_loss_1,
                   epoch_val_loss_2, val_loss_history, checkpoints, processed,
                   log_file>>

\* One iteration of eval_epoch.  The validation loader does not shuffle, but
\* it samples the neighbourhood of the batch on every pass.
DriverEvalStep ==
    /\ d_pc \in {"val_1", "val_2"}
    /\ d_batch < val_len
    /\ \E draw \in 1..val_draws :
          total_loss' = total_loss + ModelStepLoss(d_batch + 1, draw) * d_batch_size
    /\ d_batch' = d_batch + 1
    /\ model_params' = EvalParams(model_params)
    /\ processed' = Append(processed, Taken(epoch, d_pc, d_batch + 1, "ok"))
    /\ UNCHANGED <<driverConfig, epoch, d_pc, epoch_num_steps, global_num_steps,
                   epoch_train_loss, epoch_val_loss_1, epoch_val_loss_2, val_loss_history,
                   checkpoints, d_error,
                   training, log_file>>

\* return total_loss / len(val_loader)
DriverEvalReturn ==
    /\ d_pc \in {"val_1", "val_2"}
    /\ d_batch = val_len
    /\ IF val_len = 0
       THEN /\ d_pc' = "raised"
            /\ d_error' = Some("ZeroDivisionError")
            /\ UNCHANGED <<epoch_val_loss_1, epoch_val_loss_2, d_batch, total_loss, training>>
       ELSE /\ IF d_pc = "val_1"
               THEN /\ epoch_val_loss_1' = Some(Quotient(total_loss, val_len))
                    /\ epoch_val_loss_2' = epoch_val_loss_2
                    /\ d_pc' = "val_2"
                    /\ training' = EvalMode(training)
               ELSE /\ epoch_val_loss_2' = Some(Quotient(total_loss, val_len))
                    /\ epoch_val_loss_1' = epoch_val_loss_1
                    /\ d_pc' = "assert"
                    /\ training' = training
            /\ d_batch' = 0
            /\ total_loss' = 0
            /\ d_error' = d_error
    /\ UNCHANGED <<driverConfig, epoch, epoch_num_steps, global_num_steps, model_params,
                   epoch_train_loss, val_loss_history, checkpoints, processed,
                   log_file>>

\* assert epoch_val_loss_1 == epoch_val_loss_2; the log line and the histories.
DriverAssertValLoss ==
    /\ d_pc = "assert"
    /\ IF epoch_val_loss_1 = epoch_val_loss_2
       THEN /\ val_loss_history' = Append(val_loss_history, Val(epoch_val_loss_1))
            /\ d_pc' = "save"
            /\ d_error' = d_error
       ELSE /\ d_pc' = OnValLossMismatch
            /\ d_error' = Some("AssertionError")
            /\ val_loss_history' = val_loss_history
    /\ UNCHANGED <<driverConfig, epoch, d_batch, total_loss, epoch_num_steps, global_num_steps,
                   model_params, epoch_train_loss, epoch_val_loss_1, epoch_val_loss_2,
                   checkpoints, processed,
                   training, log_file>>

\* torch.save(model.state_dict(), chkpnt_path); update_log_file; the next i.
DriverSaveCheckpoint ==
    /\ d_pc = "save"
    /\ checkpoints' = IF CheckpointDue(epoch, save_every_N_epoch)
                      THEN Append(checkpoints, Checkpoint(epoch, epoch_num_steps, model_params))
                      ELSE checkpoints
    /\ log_file' = Append(log_file, epoch)
    /\ epoch' = epoch + 1
    /\ d_pc' = "epoch"
    /\ UNCHANGED <<driverConfig, d_batch, total_loss, epoch_num_steps, global_num_steps,
                   model_params, epoch_train_loss, epoch_val_loss_1, epoch_val_loss_2,
                   val_loss_history, processed, d_error,
                   training>>

\* range(num_epochs) is exhausted: train_model returns.
DriverReturn ==
    /\ d_pc = "epoch"
    /\ epoch = num_epochs
    /\ d_pc' = "finished"
    /\ UNCHANGED <<driverConfig, epoch, d_batch, total_loss, epoch_num_steps, global_num_steps,
                   model_params, epoch_train_loss, epoch_val_loss_1, epoch_val_loss_2,
                   val_loss_history, checkpoints, processed, d_error,
                   training, log_file>>

----------------------------------------------------------------------------
(* save_node_id2terms_list and load_node_id2terms_list of io.py.  A string  *)
(* is a sequence of characters.                                             *)

MaxTermLen == 2

\* The default separators of both functions, and the end of a written line.
node_terms_sep == <<"\t">>
terms_sep == <<"~", "~">>
LineEnd == <<"\n">>

\* Characters str.strip() removes.
Whitespace == {" ", "\t", "\n"}

\* Characters of the terms handed to save.
TermChars == {"a", "~", " "}

Terms == UNION {[1..k -> TermChars] : k \in 0..MaxTermLen}

\* Term lists of no, one or two terms.
TermLists == {<<>>} \cup {<<t>> : t \in Terms} \cup {<<t, u>> : t, u \in Terms}

\* Keys of the mapping: decimal node ids as strings.
Cuis == {<<"1">>, <<"2">>, <<"0", "1">>}

\* sub in str
Contains(str, sub) ==
    \E k \in 1..(Len(str) - Len(sub) + 1) : SubSeq(str, k, k + Len(sub) - 1) = sub

\* str.find(sub): the first position where sub occurs, 0 when it does not.
Find(str, sub) ==
    IF Contains(str, sub)
    THEN CHOOSE k \in 1..(Len(str) - Len(sub) + 1) :
            /\ SubSeq(str, k, k + Len(sub) - 1) = sub
            /\ \A j \in 1..(k - 1) : SubSeq(str, j, j + Len(sub) - 1) # sub
    ELSE 0

\* sep.join(parts)
RECURSIVE Join(_, _)
Join(parts, sep) ==
    IF parts = <<>> THEN <<>>
    ELSE IF Len(parts) = 1 THEN parts[1]
    ELSE parts[1] \o sep \o Join(Tail(parts), sep)

\* str.split(sep): cut at each occurrence of sep, scanning from the left.
RECURSIVE Split(_, _)
Split(str, sep) ==
    LET k == Find(str, sep) IN
    IF k = 0 THEN <<str>>
    ELSE <<SubSeq(str, 1, k - 1)>> \o Split(SubSeq(str, k + Len(sep), Len(str)), sep)

\* str.strip()
RECURSIVE Strip(_)
Strip(str) ==
    IF str = <<>> THEN str
    ELSE IF str[1] \in Whitespace THEN Strip(Tail(str))
    ELSE IF str[Len(str)] \in Whitespace THEN Strip(SubSeq(str, 1, Len(str) - 1))
    ELSE str

\* for line in inp_file: the lines of the file, each with its line end.
RECURSIVE Lines(_)
Lines(text) ==
    LET k == Find(text, LineEnd) IN
    IF text = <<>> THEN <<>>
    ELSE IF k = 0 THEN <<text>>
    ELSE <<SubSeq(text, 1, k)>> \o Lines(SubSeq(text, k + 1, Len(text)))

Digits == <<"0", "1", "2", "3", "4", "5", "6", "7", "8", "9">>

DigitValue(ch) == (CHOOSE k \in 1..Len(Digits) : Digits[k] = ch) - 1

IsDecimal(str) == str # <<>> /\ \A k \in 1..Len(str) : \E j \in 1..Len(Digits) : Digits[j] = str[k]

\* int(str) of a string of decimal digits
RECURSIVE ParseInt(_)
ParseInt(str) ==
    IF str = <<>> THEN 0
    ELSE ParseInt(SubSeq(str, 1, Len(str) - 1)) * Len(Digits) + DigitValue(str[Len(str)])

\* str(n) of a non-negative integer
RECURSIVE Str(_)
Str(n) ==
    IF n < Len(Digits) THEN <<Digits[n + 1]>>
    ELSE Str(n \div Len(Digits)) \o <<Digits[(n % Len(Digits)) + 1]>>

\* The line save writes for one item: f"{cui}{node_terms_sep}{terms_str}\n"
SavedLine(cui, terms_list) == cui \o node_terms_sep \o Join(terms_list, terms_sep) \o LineEnd

\* The checks save makes on an item before writing it: the exception they
\* raise, or None.
SaveCheck(cui, terms_list) ==
    IF Contains(cui, node_terms_sep) \/ Contains(cui, terms_sep) THEN Some("AssertionError")
    ELSE IF \E k \in 1..Len(terms_list) :
               Contains(terms_list[k], node_terms_sep) \/ Contains(terms_list[k], terms_sep)
    THEN Some("ValueError")
    ELSE None

\* The whole file save writes for a mapping whose items all pass the checks.
RECURSIVE SavedText(_)
SavedText(m) ==
    IF m = <<>> THEN <<>>
    ELSE SavedLine(m[1].cui, m[1].terms) \o SavedText(Tail(m))

\* attrs = line.strip().split(node_terms_sep)
Attrs(line) == Split(Strip(line), node_terms_sep)

\* What load does with one line: the exception it raises, or None.
LoadCheck(line) ==
    IF ~IsDecimal(Attrs(line)[1]) THEN Some("ValueError")
    ELSE IF Len(Attrs(line)) < 2 THEN Some("IndexError")
    ELSE None

\* node_id2_terms[node_id] = terms_split: a new key goes last, a known key
\* keeps its place and gets the new value.
DictSet(d, node_id, terms_split) ==
    IF \E k \in 1..Len(d) : d[k].node_id = node_id
    THEN [k \in 1..Len(d) |-> IF d[k].node_id = node_id
                              THEN [node_id |-> node_id, terms |-> terms_split]
                              ELSE d[k]]
    ELSE Append(d, [node_id |-> node_id, terms |-> terms_split])

\* The dict load builds from lines that all pass LoadCheck.
RECURSIVE Loaded(_, _)
Loaded(lines, d) ==
    IF lines = <<>> THEN d
    ELSE Loaded(Tail(lines),
                DictSet(d, ParseInt(Attrs(lines[1])[1]), Split(Attrs(lines[1])[2], terms_sep)))

\* The first exception load raises over the lines, or None.
RECURSIVE LoadError(_)
LoadError(lines) ==
    IF lines = <<>> THEN None
    ELSE IF LoadCheck(lines[1]) # None THEN LoadCheck(lines[1])
    ELSE LoadError(Tail(lines))

\* The first exception save raises over the items, or None.
RECURSIVE SaveError(_)
SaveError(m) ==
    IF m = <<>> THEN None
    ELSE IF SaveCheck(m[1].cui, m[1].terms) # None THEN SaveCheck(m[1].cui, m[1].terms)
    ELSE SaveError(Tail(m))

\* The items written before save raised.
RECURSIVE SavedPrefix(_)
SavedPrefix(m) ==
    IF m = <<>> \/ SaveCheck(m[1].cui, m[1].terms) # None THEN <<>>
    ELSE <<m[1]>> \o SavedPrefix(Tail(m))

Item(cui, terms_list) == [cui |-> cui, terms |-> terms_list]

\* Mappings of no, one or two nodes with distinct keys; in a mapping of two
\* nodes one of them has the single term "a".
Mappings ==
    {<<>>}
    \cup {<<Item(c, t)>> : c \in Cuis, t \in TermLists}
    \cup {<<Item(c[1], t), Item(c[2], <<<<"a">>>>)>> :
             c \in {p \in Cuis \X Cuis : p[1] # p[2]}, t \in TermLists}
    \cup {<<Item(c[1], <<<<"a">>>>), Item(c[2], t)>> :
             c \in {p \in Cuis \X Cuis : p[1] # p[2]}, t \in TermLists}

IoInit ==
    /\ mapping \in Mappings
    /\ out_file = <<>>
    /\ node_id2_terms = <<>>
    /\ io_pc = "start"
    /\ io_error = None

\* save_node_id2terms_list(save_path, mapping)
SaveNodeId2TermsList ==
    /\ io_pc = "start"
    /\ out_file' = SavedText(SavedPrefix(mapping))
    /\ io_error' = SaveError(mapping)
    /\ io_pc' = IF SaveError(mapping) = None THEN "saved" ELSE "save_raised"
    /\ UNCHANGED <<mapping, node_id2_terms>>

\* load_node_id2terms_list(dict_path) on the file save wrote
LoadNodeId2TermsList ==
    /\ io_pc = "saved"
    /\ IF LoadError(Lines(out_file)) = None
       THEN /\ node_id2_terms' = Loaded(Lines(out_file), <<>>)
            /\ io_pc' = "loaded"
            /\ io_error' = io_error
       ELSE /\ node_id2_terms' = node_id2_terms
            /\ io_pc' = "load_raised"
            /\ io_error' = LoadError(Lines(out_file))
    /\ UNCHANGED <<mapping, out_file>>

----------------------------------------------------------------------------
(* The model registry of lexsubgen.py: EmbSimProbEstimator.loaded, shared   *)
(* by BertProbEstimator                                                     *)

MaxEstimators == 3

ModelNames == {"bert-large-cased", "bert-base-uncased"}

\* The keys register_model puts into an entry besides ref_count.
ModelKeys == {"model", "tokenizer", "embeddings", "word2id", "filter_word_ids"}

\* The properties that read the registry, by class.
PropertiesOf(cls) ==
    IF cls = "BertProbEstimator"
    THEN {"word2id", "embeddings", "model", "tokenizer", "filter_word_ids"}
    ELSE {"word2id", "embeddings", "model"}

\* An entry of the registry: the keys it holds, and its ref_count if it holds one.
Entry(keys, ref_count) == [keys |-> keys, ref_count |-> ref_count]

\* defaultdict(dict): the value a missing name gets on first access.
EmptyEntry == Entry({}, 0)

\* loaded[name] = entry
DictPut(d, name, entry) ==
    [n \in (DOMAIN d) \cup {name} |-> IF n = name THEN entry ELSE d[n]]

\* A register_model that leaves the count of a registered name as it was.
RefCountKept(ref_count) == ref_count

\* loaded[model_name]["ref_count"] += 1
RefCountIncremented(ref_count) == ref_count + 1

RegistryInit ==
    /\ loaded = <<>>
    /\ estimators = <<>>
    /\ load_count = [n \in ModelNames |-> 0]
    /\ r_op = <<"none", "none">>
    /\ r_error = None

\* BertProbEstimator(model_name=name): __init__ ends with register_model().
\* A registered name is looked up with `in`, which creates nothing.
ConstructBertProbEstimator ==
    /\ Len(estimators) < MaxEstimators
    /\ \E name \in ModelNames :
          /\ r_op' = <<"BertProbEstimator", name>>
          /\ IF name \notin DOMAIN loaded
             THEN /\ load_count' = [load_count EXCEPT ![name] = @ + 1]
                  /\ loaded' = DictPut(loaded, name, Entry(ModelKeys \cup {"ref_count"}, 1))
                  /\ estimators' = Append(estimators, [cls |-> "BertProbEstimator", model_name |-> name])
                  /\ r_error' = None
             ELSE IF "ref_count" \in loaded[name].keys
             THEN /\ loaded' = DictPut(loaded, name,
                                       Entry(loaded[name].keys, RefCountIncremented(loaded[name].ref_count)))
                  /\ estimators' = Append(estimators, [cls |-> "BertProbEstimator", model_name |-> name])
                  /\ r_error' = None
                  /\ UNCHANGED load_count
             ELSE /\ r_error' = Some("KeyError")
                  /\ UNCHANGED <<loaded, estimators, load_count>>

\* EmbSimProbEstimator(model_name=name): the base __init__ stores the name and
\* does not register.
ConstructEmbSimProbEstimator ==
    /\ Len(estimators) < MaxEstimators
    /\ \E name \in ModelNames :
          /\ r_op' = <<"EmbSimProbEstimator", name>>
          /\ estimators' = Append(estimators, [cls |-> "EmbSimProbEstimator", model_name |-> name])
    /\ r_error' = None
    /\ UNCHANGED <<loaded, load_count>>

\* est.word2id, est.embeddings, est.model, est.tokenizer, est.filter_word_ids:
\* self.loaded[self.model_name][key].  The first subscript of the defaultdict
\* inserts an empty dict for a missing name; the second raises KeyError on a
\* missing key.
ReadProperty ==
    \E k \in 1..Len(estimators) :
    \E key \in PropertiesOf(estimators[k].cls) :
        LET name == estimators[k].model_name IN
        /\ r_op' = <<"read", name>>
        /\ loaded' = IF name \in DOMAIN loaded THEN loaded ELSE DictPut(loaded, name, EmptyEntry)
        /\ r_error' = IF name \in DOMAIN loaded /\ key \in loaded[name].keys
                      THEN None ELSE Some("KeyError")
        /\ UNCHANGED <<estimators, load_count>>

----------------------------------------------------------------------------
(* model_step of pretrain_graph_model.py and graphsage_step of              *)
(* pretrain_graphsage.py: the link-prediction loss of a batch               *)

MaxRows == 6

\* The values a row of the output can stand for.
RowValues == {1, 2}

\* torch.split(x, split_size, dim=0) on n rows: the exception it raises, or None.
\* A split_size of 0 is accepted only for a tensor without rows.
SplitError(n, split_size) ==
    IF split_size = 0 /\ n # 0 THEN Some("RuntimeError") ELSE None

\* The number of chunks torch.split returns: ceil(n / split_size), and one
\* (empty) chunk for a tensor without rows.
NumChunks(n, split_size) ==
    IF n = 0 THEN 1 ELSE (n + split_size - 1) \div split_size

\* A split that returns the first three full chunks and drops the rest.
ChunksTruncated(x, split_size) ==
    [c \in 1..Min(NumChunks(Len(x), split_size), 3) |->
        SubSeq(x, (c - 1) * split_size + 1, Min(c * split_size, Len(x)))]

\* x.split(split_size, dim=0): consecutive chunks of split_size rows, the last
\* one shorter when split_size does not divide the row count.
Chunks(x, split_size) ==
    [c \in 1..NumChunks(Len(x), split_size) |->
        SubSeq(x, (c - 1) * split_size + 1, Min(c * split_size, Len(x)))]

\* (a * b).sum(-1) for each row
RowDots(a, b) == [r \in 1..Len(a) |-> a[r] * b[r]]

\* -(a * b).sum(-1) for each row
NegRowDots(a, b) == [r \in 1..Len(a) |-> -(a[r] * b[r])]

LinkInit ==
    /\ model_output \in UNION {[1..n -> RowValues] : n \in 0..MaxRows}
    /\ link_pc = "start"
    /\ link_scores = None
    /\ link_error = None

\* model_output, pos_out, neg_out = model_output.split(model_output.size(0) // 3, dim=0)
\* pos_loss = F.logsigmoid((model_output * pos_out).sum(-1)).mean()
\* neg_loss = F.logsigmoid(-(model_output * neg_out).sum(-1)).mean()
\* The unpacking into three names raises ValueError unless there are three chunks.
ModelStep ==
    /\ link_pc = "start"
    /\ LET split_size == Len(model_output) \div 3
           parts == Chunks(model_output, split_size)
       IN IF SplitError(Len(model_output), split_size) # None
          THEN /\ link_error' = SplitError(Len(model_output), split_size)
               /\ link_scores' = None
               /\ link_pc' = "raised"
          ELSE IF Len(parts) # 3
          THEN /\ link_error' = Some("ValueError")
               /\ link_scores' = None
               /\ link_pc' = "raised"
          ELSE /\ link_scores' = Some([pos |-> RowDots(parts[1], parts[2]),
                                       neg |-> NegRowDots(parts[1], parts[3])])
               /\ link_error' = None
               /\ link_pc' = "done"
    /\ UNCHANGED model_output

----------------------------------------------------------------------------
(* extract_umls_edges of umls2graph.py.  A CUI is modelled by its rank in   *)
(* the string order of the CUIs, so cui_1 > cui_2 compares ranks.           *)

MaxCuis == 3
MaxRelRows == 3

Cuis3 == 1..MaxCuis

\* The CUI-to-node-id maps of the model: by rank, by reversed rank, and by
\* rank without the last CUI.
NodeIdMaps ==
    { [c \in Cuis3 |-> c - 1],
      [c \in Cuis3 |-> MaxCuis - c],
      [c \in 1..(MaxCuis - 1) |-> c - 1] }

\* cui2node_id.get(cui) is not None
Known(map, cui) == cui \in DOMAIN map

\* if cui_1 > cui_2: cui_1, cui_2 = cui_2, cui_1
Ordered(row) == IF row[1] > row[2] THEN <<row[2], row[1]>> ELSE row

\* two_cuis_str = f"{cui_1}~~{cui_2}"; no CUI holds a tilde, so the string
\* stands for the pair.
TwoCuisStr(cui_1, cui_2) == <<cui_1, "~~", cui_2>>

\* edges.append((cui_1_node_id, cui_2_node_id)); edges.append((cui_2_node_id, cui_1_node_id))
BothDirections(u, v) == <<<<u, v>>, <<v, u>>>>

UmlsInit ==
    /\ mrrel_df \in UNION {[1..n -> Cuis3 \X Cuis3] : n \in 0..MaxRelRows}
    /\ cui2node_id \in NodeIdMaps
    /\ idx = 0
    /\ edges = <<>>
    /\ cui_str_set = {}
    /\ u_pc = "loop"

\* One iteration of the loop over mrrel_df.iterrows().
ExtractRow ==
    /\ u_pc = "loop"
    /\ idx < Len(mrrel_df)
    /\ LET row == Ordered(mrrel_df[idx + 1])
           cui_1 == row[1]
           cui_2 == row[2]
       IN IF Known(cui2node_id, cui_1) /\ Known(cui2node_id, cui_2)
          THEN /\ edges' = IF TwoCuisStr(cui_1, cui_2) \notin cui_str_set
                           THEN edges \o BothDirections(cui2node_id[cui_1], cui2node_id[cui_2])
                           ELSE edges
               /\ cui_str_set' = cui_str_set \cup {TwoCuisStr(cui_1, cui_2)}
               /\ u_pc' = u_pc
          ELSE /\ u_pc' = "raised"
               /\ UNCHANGED <<edges, cui_str_set>>
    /\ idx' = idx + 1
    /\ UNCHANGED <<mrrel_df, cui2node_id>>

\* The rows are exhausted: return edges.
ExtractReturn ==
    /\ u_pc = "loop"
    /\ idx = Len(mrrel_df)
    /\ u_pc' = "done"
    /\ UNCHANGED <<mrrel_df, cui2node_id, idx, edges, cui_str_set>>

----------------------------------------------------------------------------
(* save_tuples and load_tuples of io.py                                     *)

MaxTuples == 2

\* The ids that occur in the tuples of the model: one and two digits.
TupleIds == {0, 3, 10}

\* Edge tuples: pairs, or triples with a relation id.
EdgeTuples == (TupleIds \X TupleIds) \cup (TupleIds \X TupleIds \X TupleIds)

\* sep of save_tuples and load_tuples
tuples_sep == <<"\t">>

\* s = sep.join((str(x) for x in t)); out_file.write(f"{s}\n")
TupleLine(t) == Join([k \in 1..Len(t) |-> Str(t[k])], tuples_sep) \o LineEnd

RECURSIVE TuplesText(_)
TuplesText(ts) ==
    IF ts = <<>> THEN <<>> ELSE TupleLine(ts[1]) \o TuplesText(Tail(ts))

\* attrs = line.strip().split(sep)
TupleAttrs(line) == Split(Strip(line), tuples_sep)

\* What load_tuples does with one line: the exception it raises, or None.
TupleLineError(line) ==
    IF ~IsDecimal(TupleAttrs(line)[1]) THEN Some("ValueError")
    ELSE IF Len(TupleAttrs(line)) < 2 THEN Some("IndexError")
    ELSE IF ~IsDecimal(TupleAttrs(line)[2]) THEN Some("ValueError")
    ELSE None

RECURSIVE TuplesError(_)
TuplesError(lines) ==
    IF lines = <<>> THEN None
    ELSE IF TupleLineError(lines[1]) # None THEN TupleLineError(lines[1])
    ELSE TuplesError(Tail(lines))

\* A loader that keeps every column of the line.
LoadedTupleAllColumns(attrs) == [k \in 1..Len(attrs) |-> ParseInt(attrs[k])]

\* tuples.append((int(attrs[0]), int(attrs[1])))
LoadedTuple(attrs) == <<ParseInt(attrs[1]), ParseInt(attrs[2])>>

TuplesInit ==
    /\ tuples_in \in UNION {[1..n -> EdgeTuples] : n \in 0..MaxTuples}
    /\ tuples_file = <<>>
    /\ tuples_out = <<>>
    /\ tp_pc = "start"
    /\ tp_error = None

\* save_tuples(save_path, tuples)
SaveTuples ==
    /\ tp_pc = "start"
    /\ tuples_file' = TuplesText(tuples_in)
    /\ tp_pc' = "saved"
    /\ UNCHANGED <<tuples_in, tuples_out, tp_error>>

\* load_tuples(path) on the file save_tuples wrote
LoadTuples ==
    /\ tp_pc = "saved"
    /\ LET lines == Lines(tuples_file) IN
       IF TuplesError(lines) = None
       THEN /\ tuples_out' = [k \in 1..Len(lines) |-> LoadedTuple(TupleAttrs(lines[k]))]
            /\ tp_pc' = "loaded"
            /\ tp_error' = tp_error
       ELSE /\ tuples_out' = tuples_out
            /\ tp_pc' = "load_raised"
            /\ tp_error' = TuplesError(lines)
    /\ UNCHANGED <<tuples_in, tuples_file>>

----------------------------------------------------------------------------
(* Specifications.  Each runs one component from its initial states and     *)
(* holds the others at rest.                                                *)

SamplerIdle ==
    /\ seeds = <<>> /\ sizes = <<>> /\ n_id = <<>> /\ adjs = <<>>
    /\ known_before = <<>> /\ s_pc = "off"
    /\ rel_ids_list = <<>> /\ edge_attrs_list = <<>>
    /\ num_layers = 0 /\ f_pc = "off" /\ f_i = 0 /\ f_x = <<>>
    /\ f_targets = <<>> /\ f_rows = <<>> /\ f_post = <<>>

EncoderIdle ==
    /\ e_kind = "off" /\ num_outer_layers = 0 /\ num_inner_layers = 0
    /\ e_adjs = <<>> /\ e_rows_in = 0 /\ e_pc = "off" /\ e_i = 0 /\ e_j = 0
    /\ e_x_rows = 0 /\ e_blocks = <<>>

TextIdle ==
    /\ batch_size = 0 /\ concept_ids = <<>> /\ t_rows_1 = 0 /\ t_rows_2 = 0
    /\ t_pc = "off" /\ text_embed = <<>> /\ labels = <<>>
    /\ t_modality_distance = "None" /\ use_intermodal_miner = FALSE /\ intermodal = "n/a"

TrainIdle ==
    /\ script = "off" /\ amp = FALSE /\ modality_distance = "None" /\ weights = "n/a"
    /\ num_batches = 0 /\ b_idx = 0 /\ pc = "off" /\ raw = NoOutput /\ rep = NoLosses
    /\ loss = 0 /\ found_inf = FALSE /\ grads = {} /\ params = 0 /\ params_before = 0
    /\ scaler_updates = 0 /\ ops = <<>> /\ num_steps = 0 /\ losses_dict = "n/a"
    /\ result = "n/a" /\ out_rows = 0 /\ history = <<>>

MainIdle ==
    /\ m_script = "off" /\ args = "n/a" /\ edges_tuples = <<>> /\ index_corrupt = FALSE
    /\ m_pc = "off" /\ edge_index = <<>> /\ edge_rel_ids = <<>> /\ m_done = <<>>
    /\ m_error = "none"

DriverIdle ==
    /\ num_epochs = 0 /\ train_len = 0 /\ val_len = 0 /\ val_draws = 0 /\ d_batch_size = 0
    /\ save_every_N_epoch = 0 /\ epoch = 0 /\ d_pc = "off" /\ d_batch = 0 /\ total_loss = 0
    /\ epoch_num_steps = 0 /\ global_num_steps = 0 /\ model_params = 0
    /\ epoch_train_loss = None /\ epoch_val_loss_1 = None /\ epoch_val_loss_2 = None
    /\ val_loss_history = <<>> /\ checkpoints = <<>> /\ processed = <<>> /\ d_error = None
    /\ training = FALSE /\ log_file = <<>>

CoreIdle == SamplerIdle /\ EncoderIdle /\ TextIdle /\ TrainIdle

IoIdle ==
    /\ mapping = <<>> /\ out_file = <<>> /\ node_id2_terms = <<>> /\ io_pc = "off"
    /\ io_error = None

RegistryIdle ==
    /\ loaded = <<>> /\ estimators = <<>> /\ load_count = <<>> /\ r_op = <<"off", "off">>
    /\ r_error = None

LinkIdle ==
    /\ model_output = <<>> /\ link_pc = "off" /\ link_scores = None /\ link_error = None

UmlsIdle ==
    /\ mrrel_df = <<>> /\ cui2node_id = <<>> /\ idx = 0 /\ edges = <<>> /\ cui_str_set = {}
    /\ u_pc = "off"

TuplesIdle ==
    /\ tuples_in = <<>> /\ tuples_file = <<>> /\ tuples_out = <<>> /\ tp_pc = "off"
    /\ tp_error = None

ExtraIdle == RegistryIdle /\ LinkIdle /\ UmlsIdle /\ TuplesIdle

BaseIdle == MainIdle /\ DriverIdle /\ IoIdle

RestIdle == MainIdle /\ DriverIdle /\ IoIdle /\ ExtraIdle

\* Sampling a batch and running GraphSAGEOverBert.forward on it.
SamplerNext ==
    \/ (SampleHop /\ UNCHANGED <<forwardVars, encoderVars, textVars, trainVars, restVars>>)
    \/ (SamplerReturn /\ UNCHANGED <<forwardVars, encoderVars, textVars, trainVars, restVars>>)
    \/ (CreateEdgeAttrs /\ UNCHANGED <<forwardVars, encoderVars, textVars, trainVars, restVars>>)
    \/ (FwdEncode /\ UNCHANGED <<samplerVars, encoderVars, textVars, trainVars, restVars>>)
    \/ (FwdLayer /\ UNCHANGED <<samplerVars, encoderVars, textVars, trainVars, restVars>>)
    \/ (FwdIndexError /\ UNCHANGED <<samplerVars, encoderVars, textVars, trainVars, restVars>>)
    \/ (FwdReturn /\ UNCHANGED <<samplerVars, encoderVars, textVars, trainVars, restVars>>)

SamplerSpecInit == SamplerInit /\ ForwardInit /\ EncoderIdle /\ TextIdle /\ TrainIdle /\ RestIdle

SamplerSpec ==
    SamplerSpecInit
    /\ [][SamplerNext]_vars

\* One forward call of a graph encoder of modules.py.
EncoderNext ==
    \/ (EncBlock /\ UNCHANGED <<samplerVars, forwardVars, textVars, trainVars, restVars>>)
    \/ (EncReturn /\ UNCHANGED <<samplerVars, forwardVars, textVars, trainVars, restVars>>)

EncoderSpecInit == EncoderInit /\ SamplerIdle /\ TextIdle /\ TrainIdle /\ RestIdle

EncoderSpec ==
    EncoderSpecInit /\ [][EncoderNext]_vars

\* One text-loss computation.
TextNext ==
    \/ (EvalStepLoss /\ UNCHANGED <<samplerVars, forwardVars, encoderVars, trainVars, restVars>>)
    \/ (CalculateSapbertLoss /\ UNCHANGED <<samplerVars, forwardVars, encoderVars, trainVars, restVars>>)
    \/ (CalculateIntermodalLossCall /\ UNCHANGED <<samplerVars, forwardVars, encoderVars, trainVars, restVars>>)

TextSpecInit == TextInit /\ SamplerIdle /\ EncoderIdle /\ TrainIdle /\ RestIdle

TextSpec ==
    TextSpecInit /\ [][TextNext]_vars

\* main of a relational training script.
MainNext ==
    \/ (MainCheckFusion /\ UNCHANGED <<coreVars, driverVars, ioVars, extraVars>>)
    \/ (MainPrepare /\ UNCHANGED <<coreVars, driverVars, ioVars, extraVars>>)
    \/ (MainNumRelations /\ UNCHANGED <<coreVars, driverVars, ioVars, extraVars>>)
    \/ (MainBuildIndex /\ UNCHANGED <<coreVars, driverVars, ioVars, extraVars>>)
    \/ (MainAssertIndex /\ UNCHANGED <<coreVars, driverVars, ioVars, extraVars>>)
    \/ (MainSamplersAndModel /\ UNCHANGED <<coreVars, driverVars, ioVars, extraVars>>)
    \/ (MainFirstStep /\ UNCHANGED <<coreVars, driverVars, ioVars, extraVars>>)

MainSpecInit == MainInit /\ CoreIdle /\ DriverIdle /\ IoIdle /\ ExtraIdle

MainSpec ==
    MainSpecInit /\ [][MainNext]_vars

\* train_model of pretrain_graph_model.py.
DriverNext ==
    \/ (DriverEpochStart /\ UNCHANGED <<coreVars, mainVars, ioVars, extraVars>>)
    \/ (DriverTrainStep /\ UNCHANGED <<coreVars, mainVars, ioVars, extraVars>>)
    \/ (DriverStepRaises /\ UNCHANGED <<coreVars, mainVars, ioVars, extraVars>>)
    \/ (DriverTrainReturn /\ UNCHANGED <<coreVars, mainVars, ioVars, extraVars>>)
    \/ (DriverEvalStep /\ UNCHANGED <<coreVars, mainVars, ioVars, extraVars>>)
    \/ (DriverEvalReturn /\ UNCHANGED <<coreVars, mainVars, ioVars, extraVars>>)
    \/ (DriverAssertValLoss /\ UNCHANGED <<coreVars, mainVars, ioVars, extraVars>>)
    \/ (DriverSaveCheckpoint /\ UNCHANGED <<coreVars, mainVars, ioVars, extraVars>>)
    \/ (DriverReturn /\ UNCHANGED <<coreVars, mainVars, ioVars, extraVars>>)

DriverSpecInit == DriverInit /\ CoreIdle /\ MainIdle /\ IoIdle /\ ExtraIdle

DriverSpec ==
    DriverSpecInit /\ [][DriverNext]_vars

\* Saving a node-term mapping and loading it back.
IoNext ==
    \/ (SaveNodeId2TermsList /\ UNCHANGED <<coreVars, mainVars, driverVars, extraVars>>)
    \/ (LoadNodeId2TermsList /\ UNCHANGED <<coreVars, mainVars, driverVars, extraVars>>)

IoSpecInit == IoInit /\ CoreIdle /\ MainIdle /\ DriverIdle /\ ExtraIdle

IoSpec ==
    IoSpecInit /\ [][IoNext]_vars

\* Constructions of estimators and reads of their registry properties.
RegistryNext ==
    \/ (ConstructBertProbEstimator /\ UNCHANGED <<coreVars, baseVars, linkVars, umlsVars, tuplesVars>>)
    \/ (ConstructEmbSimProbEstimator /\ UNCHANGED <<coreVars, baseVars, linkVars, umlsVars, tuplesVars>>)
    \/ (ReadProperty /\ UNCHANGED <<coreVars, baseVars, linkVars, umlsVars, tuplesVars>>)

RegistrySpecInit == RegistryInit /\ CoreIdle /\ BaseIdle /\ LinkIdle /\ UmlsIdle /\ TuplesIdle

\* The link-prediction step on one batch.
LinkNext ==
    \/ (ModelStep /\ UNCHANGED <<coreVars, baseVars, registryVars, umlsVars, tuplesVars>>)

LinkSpecInit == LinkInit /\ CoreIdle /\ BaseIdle /\ RegistryIdle /\ UmlsIdle /\ TuplesIdle

\* extract_umls_edges on one MRREL table.
UmlsNext ==
    \/ (ExtractRow /\ UNCHANGED <<coreVars, baseVars, registryVars, linkVars, tuplesVars>>)
    \/ (ExtractReturn /\ UNCHANGED <<coreVars, baseVars, registryVars, linkVars, tuplesVars>>)

UmlsSpecInit == UmlsInit /\ CoreIdle /\ BaseIdle /\ RegistryIdle /\ LinkIdle /\ TuplesIdle

UmlsSpec ==
    UmlsSpecInit /\ [][UmlsNext]_vars

\* Saving a list of edge tuples and loading it back.
TuplesNext ==
    \/ (SaveTuples /\ UNCHANGED <<coreVars, baseVars, registryVars, linkVars, umlsVars>>)
    \/ (LoadTuples /\ UNCHANGED <<coreVars, baseVars, registryVars, linkVars, umlsVars>>)

TuplesSpecInit == TuplesInit /\ CoreIdle /\ BaseIdle /\ RegistryIdle /\ LinkIdle /\ UmlsIdle

TuplesSpec ==
    TuplesSpecInit /\ [][TuplesNext]_vars

LinkSpec ==
    LinkSpecInit /\ [][LinkNext]_vars

RegistrySpec ==
    RegistrySpecInit /\ [][RegistryNext]_vars

\* One training epoch.
TrainNext ==
    \/ (ZeroGrad /\ UNCHANGED <<samplerVars, forwardVars, encoderVars, textVars, restVars>>)
    \/ (GatForward /\ UNCHANGED <<samplerVars, forwardVars, encoderVars, textVars, restVars>>)
    \/ (RgcnForward /\ UNCHANGED <<samplerVars, forwardVars, encoderVars, textVars, restVars>>)
    \/ (SageForward /\ UNCHANGED <<samplerVars, forwardVars, encoderVars, textVars, restVars>>)
    \/ (Backward /\ UNCHANGED <<samplerVars, forwardVars, encoderVars, textVars, restVars>>)
    \/ (OptimizerStep /\ UNCHANGED <<samplerVars, forwardVars, encoderVars, textVars, restVars>>)
    \/ (Account /\ UNCHANGED <<samplerVars, forwardVars, encoderVars, textVars, restVars>>)
    \/ (EpochReturn /\ UNCHANGED <<samplerVars, forwardVars, encoderVars, textVars, restVars>>)

TrainSpecInit == TrainInit /\ SamplerIdle /\ EncoderIdle /\ TextIdle /\ RestIdle

TrainSpec ==
    TrainSpecInit /\ [][TrainNext]_vars


----------------------------------------------------------------------------
(* Properties of the sampler and of GraphSAGEOverBert.forward (SamplerSpec) *)

\* C1: target-node prefix invariant.  For every hop, the first size[1] entries
\* of the cumulative node-id sequence are exactly the node-id sequence known
\* before that hop was sampled (same ids, same order), and the slice
\* x[:size[1]] a layer takes holds exactly the rows of those nodes.
C1_TargetPrefix ==
    /\ \A h \in 1..Len(adjs) :
          /\ SizeDst(adjs[h]) = Len(known_before[h])
          /\ Take(n_id, SizeDst(adjs[h])) = known_before[h]
    /\ \A i \in 1..Len(f_targets) : f_targets[i] = known_before[i]

\* C1's case: two layers have sliced their targets, and each hop added nodes.
C1_Witness ==
    /\ f_pc = "done"
    /\ Len(f_targets) = 2
    /\ Len(f_targets[2]) < Len(f_targets[1])
    /\ Len(f_targets[1]) < Len(n_id)

\* C2: the sampler emits exactly len(sizes) hops, whatever the seeds' neighbours
\* are, and the node-id universe never shrinks from one hop to the next.
C2_HopCount ==
    /\ Len(adjs) <= Len(sizes)
    /\ (s_pc = "sampled" => Len(adjs) = Len(sizes))
    /\ \A h \in 1..Len(adjs) :
          /\ SizeDst(adjs[h]) = Len(known_before[h])
          /\ SizeSrc(adjs[h]) >= SizeDst(adjs[h])
          /\ SizeSrc(adjs[h]) <= Len(n_id)
    /\ \A h \in 1..(Len(adjs) - 1) :
          IF s_pc = "sampling"
          THEN SizeSrc(adjs[h]) = SizeDst(adjs[h + 1])
          ELSE SizeDst(adjs[h]) = SizeSrc(adjs[h + 1])
    /\ Len(n_id) >= Len(seeds)

\* C2's case: a seed without neighbours still gets both of its hops.
C2_Witness ==
    /\ s_pc = "sampled"
    /\ seeds = <<3>>
    /\ Len(sizes) = 2
    /\ Len(adjs) = 2
    /\ adjs[1].e_id = <<>>
    /\ adjs[2].e_id = <<>>

\* C9: with as many hops as layers, layer i takes the first size[1] rows of the
\* current embeddings as hop i's targets and leaves exactly size[1] rows; the
\* output has one row per target of the last hop (the seeds); ReLU then dropout
\* follow every layer but the last.
C9_LayerRows ==
    (s_pc = "sampled" /\ Len(adjs) = num_layers) =>
        /\ f_pc # "error"
        /\ \A i \in 1..Len(f_targets) :
              /\ f_targets[i] = Take(IF i = 1 THEN n_id ELSE f_targets[i - 1], SizeDst(adjs[i]))
              /\ f_rows[i] = SizeDst(adjs[i])
              /\ f_post[i] = IF i = num_layers THEN <<>> ELSE <<"relu", "dropout">>
        /\ (f_pc = "done" =>
              /\ Len(f_rows) = num_layers
              /\ Len(f_x) = SizeDst(adjs[num_layers])
              /\ f_x = seeds)

\* C9's case: a two-layer forward pass over two hops that each added nodes.
C9_Witness ==
    /\ f_pc = "done"
    /\ num_layers = 2
    /\ Len(adjs) = 2
    /\ f_rows[1] > f_rows[2]
    /\ f_post = << <<"relu", "dropout">>, <<>> >>


\* The relation id the graph index holds for the edge u -> v.
TagOf(u, v) == EdgeRelIds[CHOOSE e \in 1..Len(GraphEdges) : GraphEdges[e] = <<u, v>>]

\* C12: for every hop, the relation-id list has one entry per local edge, and
\* entry j is the relation id of the graph edge local edge j stands for (edge
\* (0,1), tagged 5, yields 5 at its position); the edge feature of local edge j
\* is built from its own end points and the relation matrix entry j selects.
C12_RelationIdsAligned ==
    s_pc = "sampled" =>
        /\ Len(rel_ids_list) = Len(adjs)
        /\ \A h \in 1..Len(adjs) :
              /\ Len(rel_ids_list[h]) = Len(adjs[h].edge_index)
              /\ \A j \in 1..Len(adjs[h].edge_index) :
                    LET u == n_id[adjs[h].edge_index[j][1] + 1]
                        v == n_id[adjs[h].edge_index[j][2] + 1]
                    IN /\ <<u, v>> \in Range(GraphEdges)
                       /\ rel_ids_list[h][j] = TagOf(u, v)
                       /\ (<<u, v>> = <<0, 1>> => rel_ids_list[h][j] = 5)
        /\ (edge_attrs_list # <<>> =>
              /\ Len(edge_attrs_list) = Len(adjs)
              /\ \A h \in 1..Len(adjs) :
                    /\ Len(edge_attrs_list[h]) = Len(adjs[h].edge_index)
                    /\ \A j \in 1..Len(adjs[h].edge_index) :
                          LET a == edge_attrs_list[h][j]
                          IN a.matrix = TagOf(a.src, a.trg))

\* C12's case: two hops with edge features built, the edge (0,1) sampled behind
\* an edge with a smaller relation id.
C12_Witness ==
    /\ s_pc = "sampled"
    /\ Len(adjs) = 2
    /\ Len(edge_attrs_list) = 2
    /\ \E j \in 2..Len(rel_ids_list[1]) :
          /\ rel_ids_list[1][j] = 5
          /\ rel_ids_list[1][j - 1] < 5
          /\ edge_attrs_list[1][j].src = 0
          /\ edge_attrs_list[1][j].trg = 1

----------------------------------------------------------------------------
(* Properties of the graph encoders of modules.py (EncoderSpec)             *)

\* The blocks of a finished forward call that were not followed by dropout + GELU.
ExemptBlocks == {b \in 1..Len(e_blocks) : e_blocks[b].post # <<"dropout", "gelu">>}

\* The last hop the loop consumed.
LastHopConsumed == e_adjs[NumOuterIterations]

\* C7: in every forward call, for any hop list, exactly one executed block is
\* not followed by dropout + GELU, and it is the last block executed.
C7_ExactlyOneExemptBlock ==
    e_pc = "done" =>
        /\ Len(e_blocks) >= 1
        /\ ExemptBlocks = {Len(e_blocks)}

\* C8, as claimed: the number of rows returned equals size[1] of the last hop
\* consumed.
C8_RowsEqualLastTargets ==
    e_pc = "done" => e_x_rows = SizeDst(LastHopConsumed)

\* C8, amended: the encoders return as many rows as node_embeddings has (every
\* block maps the whole of x, size is never read); that is size[0] of the first
\* hop and at least size[1] of the last hop consumed, so the target rows are a
\* prefix of the output.
C8_RowsPreserved ==
    /\ e_x_rows = e_rows_in
    /\ (e_pc = "done" =>
          /\ e_x_rows = SizeSrc(e_adjs[1])
          /\ e_x_rows >= SizeDst(LastHopConsumed))

\* C8's case: a finished forward call on a batch whose hops added nodes.
C8_Witness ==
    /\ e_pc = "done"
    /\ Len(e_blocks) >= 2
    /\ e_x_rows > SizeDst(LastHopConsumed)

\* The blocks of num_outer_layers x num_inner_layers, in execution order.
AllBlocks ==
    [b \in 1..(num_outer_layers * num_inner_layers) |->
        <<(b - 1) \div num_inner_layers, (b - 1) % num_inner_layers>>]

\* C23: a finished forward call has executed every one of the
\* num_outer_layers x num_inner_layers blocks, outer layer i on hop i in each
\* of its inner blocks, and has consumed every hop it was given.
C23_AllBlocksExecuted ==
    /\ \A b \in 1..Len(e_blocks) :
          /\ <<e_blocks[b].i, e_blocks[b].j>> = AllBlocks[b]
          /\ e_blocks[b].hop = e_blocks[b].i + 1
    /\ (e_pc = "done" =>
          /\ Len(e_blocks) = num_outer_layers * num_inner_layers
          /\ {e_blocks[b].hop : b \in 1..Len(e_blocks)} = 1..Len(e_adjs))

----------------------------------------------------------------------------
(* Properties of the text loss (TextSpec)                                   *)

\* C10: the matrix given to the metric-learning loss has exactly 2*batch_size
\* rows, the first batch_size rows of view 1 then the first batch_size rows of
\* view 2; rows i and i + batch_size both carry concept_ids[i]; no row of a
\* sampled neighbour (index >= batch_size) is included or labelled.
C10_TextLossRows ==
    t_pc = "done" =>
        /\ Len(text_embed) = 2 * batch_size
        /\ Len(labels) = Len(text_embed)
        /\ \A i \in 1..batch_size :
              /\ text_embed[i] = <<1, i - 1>>
              /\ text_embed[batch_size + i] = <<2, i - 1>>
              /\ labels[i] = concept_ids[i]
              /\ labels[batch_size + i] = concept_ids[i]
        /\ \A r \in 1..Len(text_embed) : text_embed[r][2] < batch_size

\* C10's case: both views carry neighbour rows behind two differently labelled
\* seed rows.
C10_Witness ==
    /\ t_pc = "done"
    /\ batch_size = 2
    /\ t_rows_1 > batch_size
    /\ t_rows_2 > batch_size
    /\ concept_ids[1] # concept_ids[2]
    /\ Len(text_embed) = 4


\* C11: calculate_intermodal_loss returns a value exactly when modality_distance
\* is set; the value is the mean of two per-view losses; view k is computed only
\* from the first batch_size rows of text view k and of graph view k; with the
\* "sapbert" policy and the miner on, each view's loss gets the hard pairs mined
\* from that view's own matrix, never the other view's.
C11_IntermodalMean ==
    t_pc = "intermodal" =>
        /\ (intermodal.value # None) <=> (t_modality_distance # "None")
        /\ (t_modality_distance = "None" => intermodal.views = <<>>)
        /\ (t_modality_distance # "None" =>
              /\ Len(intermodal.views) = 2
              /\ 2 * Val(intermodal.value) = intermodal.views[1].loss + intermodal.views[2].loss
              /\ \A k \in 1..2 :
                    LET v == intermodal.views[k]
                        mined == t_modality_distance = "sapbert" /\ use_intermodal_miner
                    IN /\ v.text = [i \in 1..batch_size |-> <<k, i - 1>>]
                       /\ v.graph = [i \in 1..batch_size |-> <<k + 2, i - 1>>]
                       /\ (mined => /\ v.pairs # None
                                    /\ Val(v.pairs).mined_from = v.text \o v.graph)
                       /\ (~mined => v.pairs = None))

\* C11's case: mined "sapbert" alignment on views that carry neighbour rows,
\* with two different per-view losses.
C11_Witness ==
    /\ t_pc = "intermodal"
    /\ t_modality_distance = "sapbert"
    /\ use_intermodal_miner
    /\ batch_size = 2
    /\ t_rows_1 > batch_size
    /\ intermodal.views[1].loss # intermodal.views[2].loss
    /\ intermodal.value = Some(1)

----------------------------------------------------------------------------
(* Properties of main of the relational training scripts (MainSpec)         *)

HasSelfLoop(ei) == \E i \in 1..Len(ei) : ei[i][1] = ei[i][2]

IndexBuilt == "edge_index" \in Range(m_done)

IndexMismatch == Len(edge_index) # Len(edge_rel_ids)

\* What main does once the index has passed its check.
AfterIndex == {"load_positive_pairs", "sampler", "model", "zero_grad", "forward",
               "backward", "optimizer_step"}

\* C13: in every training script the graph index is without self-loops if and
\* only if remove_selfloops is set: the index is the one the option asks for, so
\* two runs that differ only in the option differ exactly in the self-loop edges.
C13_SelfLoopFlagEffective ==
    IndexBuilt =>
        /\ edge_index = ConvertEdges(edges_tuples, args.use_rel_or_rela,
                                     args.remove_selfloops).edge_index
        /\ (HasSelfLoop(edge_index)
              <=> (~args.remove_selfloops
                   /\ \E i \in 1..Len(edges_tuples) : IsSelfLoop(edges_tuples[i])))

\* C14: in both scripts the equality of the edge-index column count and the
\* relation-id list length is asserted right after the index is built; on a
\* mismatch the run ends with AssertionError having built no sampler and no
\* model, and having run no training step.
C14_IndexAssertionFatal ==
    /\ (m_pc \in {"samplers", "train", "training"} => IndexBuilt /\ ~IndexMismatch)
    /\ (Range(m_done) \cap AfterIndex # {} => IndexBuilt /\ ~IndexMismatch)
    /\ (IndexBuilt /\ IndexMismatch /\ m_pc # "assert" =>
          /\ m_pc = "failed"
          /\ m_error = "AssertionError"
          /\ m_done[Len(m_done)] = "edge_index")

\* C14's case: train_rgcn_sapbert.py stopped by the assertion on a corrupt index.
C14_Witness ==
    /\ m_script = "rgcn"
    /\ IndexBuilt
    /\ IndexMismatch
    /\ m_pc = "failed"
    /\ m_error = "AssertionError"

\* C15: a relation granularity other than "rel" / "rela" (also an unset one)
\* raises ValueError, and a weight that is missing while its flag is set
\* (fusion_text_weight with global_fusion, intermodal_loss_weight with
\* modality_distance) ends the run before the first training step is executed.
C15_ConfigErrorsFailFast ==
    LET badGranularity == args.use_rel_or_rela \notin {"rel", "rela"}
        missingFusionWeight ==
            m_script = "gatv2" /\ args.global_fusion /\ args.fusion_text_weight = None
        missingIntermodalWeight ==
            m_script = "gatv2" /\ args.modality_distance # "None"
            /\ args.intermodal_loss_weight = None
    IN /\ (badGranularity \/ missingFusionWeight \/ missingIntermodalWeight =>
              /\ "forward" \notin Range(m_done)
              /\ m_pc # "training")
       /\ (badGranularity /\ ~missingFusionWeight
              /\ m_pc \notin {"start", "prepare", "relations"} =>
              m_pc = "failed" /\ m_error = "ValueError")
       /\ (missingFusionWeight /\ m_pc # "start" =>
              m_pc = "failed" /\ m_error = "AssertionError" /\ m_done = <<>>)

----------------------------------------------------------------------------
(* Properties of the training epoch (TrainSpec)                             *)

ScaleFactors == {0, 2, 3}

\* The step's losses have been computed and weighted (train_gatv2_dgi_sapbert).
StepComputed == script = "gatv2" /\ pc \in {"backward", "opt", "account"}

\* The step's optimizer call is over.
StepUpdated == pc = "account"

\* The components that enter the total: intermodal only when it was computed.
Enabled == IF raw.intermodal = None THEN Components \ {"intermodal"} ELSE Components

\* Component value times the component's own weight.
Contribution(k) ==
    IF k = "intermodal" THEN Val(raw.intermodal) * weights.intermodal
    ELSE raw[k] * weights[k]

\* C3: the total loss of a step is the sum over the enabled components of
\* value times own weight; scaling one enabled weight by c scales that
\* component's contribution by c and leaves the other contributions unchanged.
C3_WeightedSum ==
    StepComputed =>
        /\ loss = Contribution("sapbert") + Contribution("graph") + Contribution("dgi")
                  + (IF "intermodal" \in Enabled THEN Contribution("intermodal") ELSE 0)
        /\ rep.loss = loss
        /\ \A k \in Enabled : \A c \in ScaleFactors :
              LET scaled == WeightedLosses(raw, [weights EXCEPT ![k] = c * @])
              IN /\ scaled.loss = loss + (c - 1) * Contribution(k)
                 /\ scaled[k] = c * Contribution(k)
                 /\ \A j \in Enabled \ {k} : scaled[j] = Contribution(j)

\* C3's case: all four components are non-zero and carry different weights.
C3_Witness ==
    /\ StepComputed
    /\ raw.intermodal # None
    /\ raw.sapbert = 1 /\ raw.graph = 1 /\ raw.dgi = 1 /\ Val(raw.intermodal) = 1
    /\ weights.graph = 3
    /\ loss = 17

\* Without modality_distance nothing is computed, the step reports -1 and the
\* total is the sum of the other three.
SentinelWhenUnset ==
    modality_distance = "None" =>
        /\ raw.intermodal = None
        /\ rep.intermodal = -1
        /\ loss = rep.sapbert + rep.graph + rep.dgi

C5_ReportsUnscaled ==
    StepComputed =>
        /\ rep.sapbert = raw.sapbert
        /\ rep.graph = raw.graph
        /\ rep.dgi = raw.dgi
        /\ (raw.intermodal # None => rep.intermodal = Val(raw.intermodal))

\* The operations of a step, given whether the optimizer update was applied.
StepOps(applied) ==
    <<"zero_grad", "forward", IF amp THEN "scale_backward" ELSE "backward">>
    \o (IF applied THEN <<"optimizer_step">> ELSE <<>>)
    \o (IF amp THEN <<"scaler_update">> ELSE <<>>)

\* C6: with amp the loss is scaled before backward, and a step whose gradients
\* overflow skips the optimizer update (parameters unchanged) while the epoch
\* goes on to the next batch; without amp every step updates.  Nothing else of
\* a step is ever left out.
C6_OverflowSkipsUpdateOnly ==
    /\ (pc \in {"forward", "backward", "opt"} => params = params_before)
    /\ (StepUpdated =>
          /\ ops = StepOps(~(amp /\ found_inf))
          /\ (amp /\ found_inf => params = params_before)
          /\ (~(amp /\ found_inf) => params = params_before + 1))
    /\ (~amp => params = num_steps + (IF StepUpdated THEN 1 ELSE 0))
    /\ (amp => scaler_updates = num_steps + (IF StepUpdated THEN 1 ELSE 0))
    /\ (pc = "returned" => num_steps = num_batches /\ b_idx = num_batches)

\* C6's case: a two-batch amp epoch that ran to its end with one update skipped.
C6_Witness ==
    /\ pc = "returned"
    /\ amp
    /\ num_steps = 2
    /\ params = 1

\* The calls an epoch function makes for one batch, in the order of the loop body.
StepCalls == <<"zero_grad", "forward", "backward", "step">>

\* C16: in every epoch function the calls of the epoch are, batch after batch,
\* zero_grad, forward, backward, optimizer step: the step of batch n is issued
\* before anything of batch n+1, zero_grad leaves no gradient behind, and the
\* gradients an optimizer step applies are those of its own batch alone.
C16_StepOrder ==
    /\ Len(history) <= 4 * b_idx
    /\ \A i \in 1..Len(history) :
          LET e == history[i] IN
          /\ e.batch = ((i - 1) \div 4) + 1
          /\ e.op = StepCalls[((i - 1) % 4) + 1]
          /\ (e.op = "zero_grad" => e.grads = {})
          /\ (e.op \in {"backward", "step"} => e.grads = {e.batch})
    /\ (pc \in {"next", "returned"} => Len(history) = 4 * b_idx)

\* C16's case: a GraphSAGE epoch whose second batch has reached its optimizer step.
C16_Witness ==
    /\ script = "graphsage"
    /\ Len(history) = 8
    /\ history[4].op = "step" /\ history[4].batch = 1
    /\ history[6].op = "forward" /\ history[6].batch = 2
    /\ history[8].op = "step" /\ history[8].grads = {2}

----------------------------------------------------------------------------
(* Properties of train_model of pretrain_graph_model.py (DriverSpec)        *)

\* The passes of an epoch over its loaders, in the order train_model makes them.
PassNo(pass) == IF pass = "train" THEN 0 ELSE IF pass = "val_1" THEN 1 ELSE 2

\* The place of a batch in the run: by epoch, then pass, then index in the loader.
PlaceOf(t) == (t.epoch * 3 + PassNo(t.pass)) * (MaxLoaderLen + 1) + t.batch

\* C17: an exception raised by a step leaves the epoch function and
\* train_model: the failed batch is the last batch ever taken from a loader,
\* the batches are taken in the order of the run and none of them twice,
\* train_model is left in a state where it does nothing more, and the epoch
\* of the failure writes no checkpoint.
C17_NoRetryNoPartialFailure ==
    /\ \A k \in 1..Len(processed) :
          processed[k].outcome = "raised" => k = Len(processed)
    /\ \A k \in 1..(Len(processed) - 1) :
          PlaceOf(processed[k]) < PlaceOf(processed[k + 1])
    /\ (d_error = Some("Exception")
          <=> (processed # <<>> /\ processed[Len(processed)].outcome = "raised"))
    /\ (d_error # None =>
          /\ d_pc = "raised"
          /\ ~ENABLED DriverNext
          /\ \A k \in 1..Len(checkpoints) : checkpoints[k].e < epoch)

\* C17's case: the second epoch's second validation pass raised on its first
\* of two batches, after the first epoch had been saved.
C17_Witness ==
    /\ d_error = Some("Exception")
    /\ epoch = 1
    /\ val_len = 2
    /\ processed[Len(processed)] = Taken(1, "val_2", 1, "raised")
    /\ Len(checkpoints) = 1

\* C18: the two eval_epoch passes of an epoch return the same value, so the
\* assertion of train_model never fails.
C18_ValidationDeterministic ==
    /\ (d_pc = "assert" => epoch_val_loss_1 = epoch_val_loss_2)
    /\ d_error # Some("AssertionError")

----------------------------------------------------------------------------
(* Properties of the node-term file of io.py (IoSpec)                       *)

\* The mapping as load would have to return it: the same keys and term lists
\* in the same order.
SameMapping(m, d) ==
    /\ Len(d) = Len(m)
    /\ \A k \in 1..Len(m) :
          /\ Str(d[k].node_id) = m[k].cui
          /\ d[k].terms = m[k].terms

\* C19: whatever mapping save has written, load returns it: the same node
\* ids, the same term list for each node, the same order of nodes and terms.
C19_RoundTrip ==
    /\ (io_pc = "loaded" => SameMapping(mapping, node_id2_terms))
    /\ io_pc # "load_raised"

----------------------------------------------------------------------------
(* Properties of the model registry of lexsubgen.py (RegistrySpec)          *)

\* The number of BertProbEstimator objects constructed for a name.
RECURSIVE ConstructedFor(_, _)
ConstructedFor(ests, name) ==
    IF ests = <<>> THEN 0
    ELSE (IF ests[1].cls = "BertProbEstimator" /\ ests[1].model_name = name THEN 1 ELSE 0)
         + ConstructedFor(Tail(ests), name)

\* C21: a model name is loaded at most once, by the first construction for
\* it, which leaves ref_count = 1; later constructions for the name only add
\* one to ref_count, which thus equals the number of estimators constructed
\* for the name.
C21_RefCount ==
    \A name \in ModelNames :
        /\ load_count[name] <= 1
        /\ (ConstructedFor(estimators, name) > 0 =>
              /\ name \in DOMAIN loaded
              /\ load_count[name] = 1
              /\ loaded[name].ref_count = ConstructedFor(estimators, name))
        /\ (load_count[name] = 1 => ConstructedFor(estimators, name) >= 1)

\* C21's case: three constructions, two of them for the same name.
C21_Witness ==
    /\ ConstructedFor(estimators, "bert-large-cased") = 2
    /\ ConstructedFor(estimators, "bert-base-uncased") = 1
    /\ loaded["bert-large-cased"].ref_count = 2
    /\ load_count["bert-large-cased"] = 1

\* C22: every entry present in the registry is complete, whatever
\* constructions and property reads came before, and constructing a
\* BertProbEstimator (its register_model) never fails.
C22_EntriesComplete ==
    /\ \A name \in DOMAIN loaded :
          /\ loaded[name].keys = ModelKeys \cup {"ref_count"}
          /\ loaded[name].ref_count >= 1
    /\ ~(r_op[1] = "BertProbEstimator" /\ r_error = Some("KeyError"))

----------------------------------------------------------------------------
(* train_model: modes, validation and the order of an epoch's writes        *)
(* (DriverSpec)                                                             *)

\* C24: whenever a training step can run the model is in training mode, and
\* whenever a validation step can run it is in evaluation mode, in every
\* epoch: each epoch function sets the mode on entry.
C24_ModeMatchesPass ==
    /\ (d_pc = "train" => training)
    /\ (d_pc \in {"val_1", "val_2"} => ~training)

\* C24's case: a training step of the second epoch, after the validation
\* passes of the first epoch had left the model in evaluation mode.
C24_Witness ==
    /\ epoch = 1
    /\ d_pc = "train"
    /\ training
    /\ processed # <<>>
    /\ processed[Len(processed)] = Taken(1, "train", 1, "ok")

\* The number of batches of training passes that were processed without an exception.
RECURSIVE TrainStepsDone(_)
TrainStepsDone(taken) ==
    IF taken = <<>> THEN 0
    ELSE (IF taken[1].pass = "train" /\ taken[1].outcome = "ok" THEN 1 ELSE 0)
         + TrainStepsDone(Tail(taken))

\* The number of batches of validation passes that were processed.
RECURSIVE ValStepsDone(_)
ValStepsDone(taken) ==
    IF taken = <<>> THEN 0
    ELSE (IF taken[1].pass # "train" /\ taken[1].outcome = "ok" THEN 1 ELSE 0)
         + ValStepsDone(Tail(taken))

\* C25: validation leaves the training state as it was: the parameters have
\* been updated once per training step and by nothing else, however many
\* validation batches were processed.
C25_ValidationFrame ==
    /\ model_params = TrainStepsDone(processed)
    /\ (d_pc \in {"val_1", "val_2", "assert", "save"} =>
          model_params = global_num_steps)

\* C25's case: both validation passes of an epoch ran over two batches after
\* one training step.
C25_Witness ==
    /\ d_pc = "assert"
    /\ train_len = 1
    /\ val_len = 2
    /\ ValStepsDone(processed) = 4
    /\ model_params = 1

\* The batches of epoch e that were processed without an exception in a pass.
DoneIn(e, pass) ==
    {processed[k].batch : k \in {j \in 1..Len(processed) :
        /\ processed[j].epoch = e
        /\ processed[j].pass = pass
        /\ processed[j].outcome = "ok"}}

\* C26: the checkpoint and the log line of an epoch are written only after
\* its training pass and both validation passes went through all their
\* batches and the two validation losses were equal; an epoch that fails
\* writes nothing, and the earlier epochs' files are there; checkpoints come
\* in increasing epoch order, one per completed epoch.
C26_WritesAfterValidation ==
    /\ Len(checkpoints) = epoch
    /\ log_file = [k \in 1..epoch |-> k - 1]
    /\ \A k \in 1..Len(checkpoints) :
          /\ checkpoints[k].e = k - 1
          /\ DoneIn(k - 1, "train") = 1..train_len
          /\ DoneIn(k - 1, "val_1") = 1..val_len
          /\ DoneIn(k - 1, "val_2") = 1..val_len
    /\ Len(val_loss_history) = epoch + (IF d_pc = "save" THEN 1 ELSE 0)
    /\ (d_pc = "save" => epoch_val_loss_1 = epoch_val_loss_2)
    /\ (d_error # None => d_pc = "raised")

\* C26's case: the second epoch failed its validation assertion after the
\* first epoch had written its checkpoint and log line.
C26_Witness ==
    /\ d_error = Some("AssertionError")
    /\ epoch = 1
    /\ Len(checkpoints) = 1
    /\ log_file = <<0>>

----------------------------------------------------------------------------
(* Properties of the link-prediction step (LinkSpec)                        *)

\* C27: on an output whose row count is a positive multiple of 3 the step
\* scores anchor row i (first third) against positive row i (second third)
\* and negative row i (last third); on any other row count it raises and
\* computes nothing.
C27_ThirdsOrError ==
    link_pc # "start" =>
        LET rows == Len(model_output)
            third == rows \div 3
        IN IF rows > 0 /\ rows % 3 = 0
           THEN /\ link_pc = "done"
                /\ link_error = None
                /\ Len(Val(link_scores).pos) = third
                /\ Len(Val(link_scores).neg) = third
                /\ \A r \in 1..third :
                      /\ Val(link_scores).pos[r] = model_output[r] * model_output[third + r]
                      /\ Val(link_scores).neg[r] = -(model_output[r] * model_output[2 * third + r])
           ELSE /\ link_pc = "raised"
                /\ link_error # None
                /\ link_scores = None

\* C27's case: a scored batch of two anchors, two positives and two negatives.
C27_Witness ==
    /\ link_pc = "done"
    /\ model_output = <<1, 2, 2, 2, 1, 2>>
    /\ Val(link_scores) = [pos |-> <<2, 4>>, neg |-> <<-1, -4>>]

\* C27's other case: an output of four rows raises.
C27_WitnessRaised ==
    /\ link_pc = "raised"
    /\ Len(model_output) = 4
    /\ link_error = Some("ValueError")

----------------------------------------------------------------------------
(* Properties of extract_umls_edges (UmlsSpec)                              *)

\* The number of times an ordered pair occurs in an edge list.
RECURSIVE Occurrences(_, _)
Occurrences(es, pair) ==
    IF es = <<>> THEN 0
    ELSE (IF es[1] = pair THEN 1 ELSE 0) + Occurrences(Tail(es), pair)

\* Every CUI of the table is a key of the map.
AllCuisKnown ==
    \A k \in 1..Len(mrrel_df) :
        Known(cui2node_id, mrrel_df[k][1]) /\ Known(cui2node_id, mrrel_df[k][2])

\* C28: for a table whose CUIs are all in the map, the returned list holds
\* (u, v) and (v, u) for every pair of concepts some row relates, and holds
\* no ordered pair more than once.
C28_OrientedNoDuplicates ==
    (u_pc = "done" /\ AllCuisKnown) =>
        /\ \A k \in 1..Len(mrrel_df) :
              LET u == cui2node_id[mrrel_df[k][1]]
                  v == cui2node_id[mrrel_df[k][2]]
              IN Occurrences(edges, <<u, v>>) >= 1 /\ Occurrences(edges, <<v, u>>) >= 1
        /\ \A k \in 1..Len(edges) : Occurrences(edges, edges[k]) = 1

----------------------------------------------------------------------------
(* Properties of the edge file of io.py (TuplesSpec)                        *)

\* C29 as stated: load_tuples returns the list save_tuples wrote, pairs and
\* triples alike.
C29_TuplesRoundTrip ==
    /\ tp_pc # "load_raised"
    /\ (tp_pc = "loaded" => tuples_out = tuples_in)

\* C29, amended: load_tuples returns, in the order written and with
\* duplicates kept, the first two columns of every tuple: a list of pairs
\* comes back as it was, a triple comes back without its relation id.
C29_FirstTwoColumns ==
    /\ tp_pc # "load_raised"
    /\ (tp_pc = "loaded" =>
          /\ Len(tuples_out) = Len(tuples_in)
          /\ \A k \in 1..Len(tuples_in) :
                tuples_out[k] = <<tuples_in[k][1], tuples_in[k][2]>>
          /\ ((\A k \in 1..Len(tuples_in) : Len(tuples_in[k]) = 2) => tuples_out = tuples_in))

\* C29's case: a list of two equal pairs with a two-digit id came back as written.
C29_Witness ==
    /\ tp_pc = "loaded"
    /\ tuples_in = <<<<10, 3>>, <<10, 3>>>>
    /\ tuples_out = tuples_in

----------------------------------------------------------------------------
(* Properties of the epoch functions on short and empty loaders (TrainSpec) *)

\* C30: an epoch that returns reports as many steps as the loader yielded
\* batches, steps with a skipped optimizer update included, and an epoch over
\* a loader that yields no batch returns zero steps without raising.
C30_EpochCompletes ==
    /\ (pc = "returned" => result.num_steps = num_batches)
    /\ (num_batches = 0 => pc # "raised")


====
